---------------------------- MODULE Spec2Model ----------------------------
(***************************************************************************)
(* A model of pygsm's GsmModem (src/pygsm/gsmmodem.py): the line reader,   *)
(* the response collector, the unsolicited-data filter, the incoming       *)
(* message assembler, the command engine and the operations built on it,   *)
(* run against a serial device.  Text is modelled as Python sees it: a     *)
(* string is a sequence of one-character strings, the transport is a       *)
(* stream of characters, and every method is an operator that threads the  *)
(* modem and the device through its statements and yields the value        *)
(* returned or the exception raised.                                       *)
(***************************************************************************)
EXTENDS Integers, Sequences, FiniteSets, TLC

VARIABLES
    device,          \* self.device: the transport and the modem behind it
    multipart,       \* self.multipart: sender -> list of message parts
    incoming_queue,  \* self.incoming_queue: list of IncomingMessage
    max_retries,     \* GsmModem.max_retries (overridable configuration)
    modem_lock,      \* GsmModem._modem_lock: depth to which it is held
    last,            \* the last operation: its call, outcome and event log
    threads          \* concurrent callers: where each is in its call, and
                     \* what has passed over the transport

vars == <<device, multipart, incoming_queue, max_retries, modem_lock, last, threads>>

---------------------------------------------------------------------------
(* Python values.                                                          *)

\* Python's None where an integer is expected (a timeout, an error code).
None == -1

Min(a, b) == IF a < b THEN a ELSE b
Max(a, b) == IF a > b THEN a ELSE b

\* s[i:j] and s[i:] of Python (0-based, end-exclusive, clamped).
Slice(s, i, j) == SubSeq(s, i + 1, Min(j, Len(s)))
SliceFrom(s, i) == SubSeq(s, i + 1, Len(s))

StartsWith(s, p) == Len(s) >= Len(p) /\ SubSeq(s, 1, Len(p)) = p

\* buffer[-n::] == list(term): the last n elements (all of them if fewer).
Last(s, n) == SubSeq(s, Max(1, Len(s) - n + 1), Len(s))

\* The characters str.strip() removes.
Whitespace == {" ", "\t", "\n", "\r"}

RECURSIVE lstrip(_)
lstrip(s) ==
    IF s # <<>> /\ Head(s) \in Whitespace THEN lstrip(Tail(s)) ELSE s

RECURSIVE rstrip(_)
rstrip(s) ==
    IF s # <<>> /\ s[Len(s)] \in Whitespace
    THEN rstrip(SubSeq(s, 1, Len(s) - 1))
    ELSE s

strip(s) == rstrip(lstrip(s))

Digits == {"0", "1", "2", "3", "4", "5", "6", "7", "8", "9"}

DigitVal(c) ==
    CASE c = "0" -> 0 [] c = "1" -> 1 [] c = "2" -> 2 [] c = "3" -> 3
      [] c = "4" -> 4 [] c = "5" -> 5 [] c = "6" -> 6 [] c = "7" -> 7
      [] c = "8" -> 8 [] c = "9" -> 9

IsDigits(s) == s # <<>> /\ \A i \in 1..Len(s) : s[i] \in Digits

\* int(s) for a string of decimal digits.
RECURSIVE int(_)
int(s) ==
    IF s = <<>> THEN 0
    ELSE 10 * int(SubSeq(s, 1, Len(s) - 1)) + DigitVal(s[Len(s)])

\* "".join(parts)
RECURSIVE join(_)
join(parts) ==
    IF parts = <<>> THEN <<>> ELSE Head(parts) \o join(Tail(parts))

CRLF == <<"\r", "\n">>
CR == <<"\r">>
\* chr(26) SUBSTITUTE (ctrl+z), chr(27) ESCAPE, chr(130), chr(173): one
\* character each, named by its code.
Chr26 == "<26>"
Chr27 == "<27>"
Chr130 == "<130>"
Chr173 == "<173>"

S_OK == <<"O", "K">>
S_ERROR == <<"E", "R", "R", "O", "R">>
S_COMMAND_NOT_SUPPORT ==
    <<"C", "O", "M", "M", "A", "N", "D", " ", "N", "O", "T", " ",
      "S", "U", "P", "P", "O", "R", "T">>
S_AT == <<"A", "T">>
S_AT_CNMA == <<"A", "T", "+", "C", "N", "M", "A">>

---------------------------------------------------------------------------
(* Exceptions (pygsm/errors.py) and results.                               *)

\* An exception: its class, and the attributes the code reads
\* (GsmModemError.type/.code, GsmReadTimeoutError.pending_data).
Exc(type, etype, code, pending) ==
    [type |-> type, etype |-> etype, code |-> code, pending_data |-> pending]

NoExc == Exc("None", "", None, <<>>)
GsmModemError(etype, code) == Exc("GsmModemError", etype, code, <<>>)
GsmReadTimeoutError(buffer) == Exc("GsmReadTimeoutError", "", None, buffer)
GsmWriteError == Exc("GsmWriteError", "", None, <<>>)
GsmReadError == Exc("GsmReadError", "", None, <<>>)
GsmConnectError == Exc("GsmConnectError", "", None, <<>>)
GsmError == Exc("GsmError", "", None, <<>>)
PyError(type) == Exc(type, "", None, <<>>)
\* A read that blocks for ever (no timeout set, no data): the call never
\* returns, and no handler sees it.
Hang == Exc("Hang", "", None, <<>>)

\* isinstance(err, errors.GsmError)
IsGsmError(e) ==
    e.type \in {"GsmError", "GsmIOError", "GsmWriteError", "GsmReadError",
                "GsmReadTimeoutError", "GsmModemError", "GsmConnectError",
                "GsmParseError"}

\* isinstance(err, Exception): every exception raised, but not a hang.
IsException(e) == e.type \notin {"None", "Hang"}

Raised(r) == r.exc.type # "None"

\* Return values.
RNone == [kind |-> "None"]
RFalse == [kind |-> "False"]
RTrue == [kind |-> "True"]
RLines(ls) == [kind |-> "lines", lines |-> ls]
RStr(s) == [kind |-> "str", str |-> s]
RMsg(m) == [kind |-> "msg", msg |-> m]

\* The outcome of a call: the modem and device after it, the value
\* returned or the exception raised.
Ret(m, v) == [m |-> m, ret |-> v, exc |-> NoExc]
Raise(m, e) == [m |-> m, ret |-> RNone, exc |-> e]

\* An entry of the event log: what happened, the depth to which the modem
\* lock was held, and how deeply command() calls were nested.
Event(m, ev, data) ==
    [ev |-> ev, data |-> data, lock |-> m.lock, depth |-> m.depth]
Log(m, ev, data) == [m EXCEPT !.log = Append(@, Event(m, ev, data))]

\* with self._modem_lock: enter and exit.
Acquire(m) == [m EXCEPT !.lock = @ + 1]
Release(m) == [m EXCEPT !.lock = @ - 1]

---------------------------------------------------------------------------
(* The device behind the transport.  A scripted device is any modem: it    *)
(* answers the n-th write with the n-th entry of its script (bytes put on  *)
(* the line, or a failure of the write) and falls silent when the script   *)
(* is used up.  The mock devices are those of src/test/mock/device.py and  *)
(* src/test/gsmmodem.py.                                                   *)

S_CMS_ERROR_515 ==
    <<"+", "C", "M", "S", " ", "E", "R", "R", "O", "R", ":", " ", "5", "1", "5">>
S_CMGS_1 == <<"+", "C", "M", "G", "S", ":", " ", "1">>
S_AT_PLUS == <<"A", "T", "+">>
S_CMGF == <<"C", "M", "G", "F">>
S_CMGS == <<"C", "M", "G", "S">>
S_TEST == <<"T", "E", "S", "T">>

UpperCase ==
    {"A", "B", "C", "D", "E", "F", "G", "H", "I", "J", "K", "L", "M",
     "N", "O", "P", "Q", "R", "S", "T", "U", "V", "W", "X", "Y", "Z"}

\* A script entry: the write succeeds and the device puts `out` on the
\* line, or the write fails with OSError.
Answer(out) == [werr |-> FALSE, out |-> out]
WriteFails == [werr |-> TRUE, out |-> <<>>]

\* A device as constructed: nothing written, nothing to read.  (port is
\* what opening the serial port does, for a modem that was given the
\* port's arguments and no device.)
NewDevice(kind, timeout, script) ==
    [kind |-> kind, buf_read |-> <<>>, buf_write |-> <<>>,
     timeout |-> timeout, script |-> script, port |-> "opens",
     echo |-> TRUE, mode |-> "PDU",
     recipient |-> <<>>, has_recipient |-> FALSE,
     message |-> <<>>, sent_messages |-> <<>>,
     last_cmd |-> <<>>, has_last_cmd |-> FALSE, retried |-> <<>>]

\* MockDevice._output: the string, between terminators unless told not to.
_output(dev, str, delimiters) ==
    [dev EXCEPT !.buf_read =
        @ \o (IF delimiters THEN CRLF ELSE <<>>) \o str
          \o (IF delimiters THEN CRLF ELSE <<>>)]

_ok(dev) == _output(dev, S_OK, TRUE)
_error(dev) == _output(dev, S_ERROR, TRUE)

\* MockSenderDevice._prompt
_prompt(dev) == _output(dev, <<"\r", "\n", ">">>, FALSE)

\* MockDevice._respond for a handler's True, False or None.
_respond(dev, out) ==
    CASE out = "True" -> _ok(dev)
      [] out = "False" -> _error(dev)
      [] OTHER -> dev

\* val.strip('"')
RECURSIVE strip_quotes(_)
strip_quotes(s) ==
    IF s # <<>> /\ Head(s) = "\"" THEN strip_quotes(Tail(s))
    ELSE IF s # <<>> /\ s[Len(s)] = "\"" THEN strip_quotes(SubSeq(s, 1, Len(s) - 1))
    ELSE s

\* re.match(r"^AT\+([A-Z]+)=(.+)$", cmd): <<key, val>>, or <<>> for no match.
MatchAtSet(cmd) ==
    IF ~StartsWith(cmd, S_AT_PLUS) THEN <<>>
    ELSE
        LET rest == SliceFrom(cmd, 3)
            eqs == {i \in 1..Len(rest) : rest[i] = "="}
        IN  IF eqs = {} THEN <<>>
            ELSE
                LET e == CHOOSE i \in eqs : \A j \in eqs : i <= j
                    key == SubSeq(rest, 1, e - 1)
                    val == SubSeq(rest, e + 1, Len(rest))
                IN  IF key # <<>> /\ (\A i \in 1..Len(key) : key[i] \in UpperCase)
                       /\ val # <<>> /\ (\A i \in 1..Len(val) : val[i] # "\n")
                    THEN <<key, val>>
                    ELSE <<>>

\* MockDevice.at_cmgf
at_cmgf(dev, mode) ==
    IF mode = <<"0">> THEN _respond([dev EXCEPT !.mode = "PDU"], "True")
    ELSE IF mode = <<"1">> THEN _respond([dev EXCEPT !.mode = "TEXT"], "True")
    ELSE _respond([dev EXCEPT !.mode = "None"], "False")

\* MockSenderDevice.at_cmgs: note the recipient and prompt for the text.
\* (An empty recipient is falsy: the device does not take itself to be
\* collecting a message.)
at_cmgs(dev, recipient) ==
    _respond(_prompt([dev EXCEPT !.recipient = recipient,
                                 !.has_recipient = (recipient # <<>>),
                                 !.message = <<>>]), "None")

\* MockBusyDevice.process: busy the first time a command is seen, an
\* error (noted as a retry) when it is seen again.
busy_process(dev, cmd) ==
    IF ~dev.has_last_cmd \/ dev.last_cmd # cmd
    THEN _respond([_output(dev, S_CMS_ERROR_515, TRUE)
                      EXCEPT !.last_cmd = cmd, !.has_last_cmd = TRUE], "None")
    ELSE _respond([dev EXCEPT !.retried = Append(@, cmd)], "False")

\* MockDevice._process once the command has been matched against
\* ^AT\+([A-Z]+)=(.+)$: hand it to its at_ handler, or to the subclass's
\* process, or answer ERROR.
process_match(dev, cmd, match) ==
    IF match # <<>> /\ match[1] = S_CMGF
    THEN at_cmgf(dev, strip_quotes(match[2]))
    ELSE IF match # <<>> /\ match[1] = S_CMGS /\ dev.kind = "MockSenderDevice"
    THEN at_cmgs(dev, strip_quotes(match[2]))
    ELSE IF match # <<>> /\ match[1] = S_TEST /\ dev.kind = "MockBusyDevice"
    THEN _respond(dev, "True")
    ELSE IF dev.kind = "MockBusyDevice" THEN busy_process(dev, cmd)
    ELSE _error(dev)

process_stripped(dev, cmd) == process_match(dev, cmd, MatchAtSet(cmd))

\* MockDevice._process
Mock_process(dev, cmd0) == process_stripped(dev, strip(cmd0))

\* MockSenderDevice._process: while a message is being built, store the
\* line and prompt for the next.
_process(dev, cmd) ==
    IF dev.kind = "MockSenderDevice" /\ dev.has_recipient
    THEN _prompt([dev EXCEPT !.message = Append(@, cmd)])
    ELSE Mock_process(dev, cmd)

\* MockDevice.write: <<device, error>>.  Every character goes to the
\* write buffer (and back to the reader while echo is on); a trailing \r
\* has the buffer processed.
Mock_write(dev, str) ==
    LET d1 == [dev EXCEPT !.buf_write = @ \o str,
                          !.buf_read = IF dev.echo THEN @ \o str ELSE @]
    IN  IF d1.buf_write = <<>> THEN <<d1, "IndexError">>
        ELSE IF d1.buf_write[Len(d1.buf_write)] = "\r"
        THEN <<[_process(d1, d1.buf_write) EXCEPT !.buf_write = <<>>], "">>
        ELSE <<d1, "">>

\* "\n".join(message)
RECURSIVE join_lines(_)
join_lines(message) ==
    IF message = <<>> THEN <<>>
    ELSE IF Len(message) = 1 THEN message[1]
    ELSE message[1] \o <<"\n">> \o join_lines(Tail(message))

\* MockSenderDevice.write once the text before ctrl+z has been written:
\* the message is stored and acknowledged.
sender_send(w) ==
    IF w[2] # "" THEN w
    ELSE <<_ok([_output([w[1] EXCEPT
                            !.buf_write = <<>>,
                            !.sent_messages = Append(@,
                                [recipient |-> w[1].recipient,
                                 text |-> join_lines(Append(w[1].message,
                                                            w[1].buf_write))])],
                        S_CMGS_1, TRUE)
                  EXCEPT !.recipient = <<>>, !.has_recipient = FALSE,
                         !.message = <<>>]), "">>

\* MockSenderDevice.write: ctrl+z while a message is being written sends it.
Sender_write(dev, str) ==
    IF dev.has_recipient /\ str # <<>> /\ str[Len(str)] = Chr26
    THEN sender_send(Mock_write(dev, SubSeq(str, 1, Len(str) - 1)))
    ELSE IF dev.has_recipient /\ str = <<>> THEN <<dev, "IndexError">>
    ELSE Mock_write(dev, str)

\* A scripted device's write: the next script entry decides.
Script_write(dev, str) ==
    IF dev.script = <<>> THEN <<dev, "">>
    ELSE
        LET a == Head(dev.script)
            d1 == [dev EXCEPT !.script = Tail(@)]
        IN  IF a.werr THEN <<d1, "OSError">>
            ELSE <<[d1 EXCEPT !.buf_read = @ \o a.out], "">>

\* self.device is None: the modem was given the arguments of a serial
\* port, which opening does to `port`.
NoDevice(port) == [NewDevice("None", None, <<>>) EXCEPT !.port = port]

\* self.device.write(str_): <<device, error>>.  None has no write.
DevWrite(dev, str) ==
    CASE dev.kind = "None" -> <<dev, "AttributeError">>
      [] dev.kind = "script" -> Script_write(dev, str)
      [] dev.kind = "MockSenderDevice" -> Sender_write(dev, str)
      [] OTHER -> Mock_write(dev, str)

\* The place in the stream of a serial device where the port fails: the
\* read that comes to it raises SerialException.
PortFails == "<port fails>"

\* self.device.read(): one character, "" when the timeout passes with
\* nothing to read; without a timeout the read waits for ever.  A serial
\* port that fails raises.
DevRead(dev) ==
    IF dev.buf_read # <<>> /\ Head(dev.buf_read) = PortFails
    THEN [dev |-> [dev EXCEPT !.buf_read = Tail(@)], ch |-> "", hang |-> FALSE,
          err |-> "SerialException"]
    ELSE IF dev.buf_read # <<>>
    THEN [dev |-> [dev EXCEPT !.buf_read = Tail(@)], ch |-> Head(dev.buf_read),
          hang |-> FALSE, err |-> ""]
    ELSE [dev |-> dev, ch |-> "", hang |-> ~(dev.timeout > 0), err |-> ""]

---------------------------------------------------------------------------
(* GsmModem: the line reader and the response collector.  A modem m is     *)
(* [dev, multipart, incoming_queue, lock, depth, log].                     *)

\* GsmModem._write once the device has taken the string, w being <<device,
\* error>>: a device that cannot be written to raises GsmWriteError; any
\* other failure of the device passes through.
written(m, w) ==
    IF w[2] = "OSError" THEN Raise([m EXCEPT !.dev = w[1]], GsmWriteError)
    ELSE IF w[2] # "" THEN Raise([m EXCEPT !.dev = w[1]], PyError(w[2]))
    ELSE Ret([m EXCEPT !.dev = w[1]], RNone)

\* GsmModem._write
_write(m, str_) == written(Log(m, "write", str_), DevWrite(m.dev, str_))

\* __reset_timeout, the closure of _read: put the device's timeout back
\* if this read overrode it.
__reset_timeout(dev, read_timeout, old_timeout) ==
    IF read_timeout # None THEN [dev EXCEPT !.timeout = old_timeout] ELSE dev

\* The while(True) of GsmModem._read: read a character at a time until the
\* buffer ends with the terminator or a read times out.
RECURSIVE _read_loop(_, _, _, _, _)
_read_loop(m, buffer, read_term, read_timeout, old_timeout) ==
    LET r == DevRead(m.dev)
        buffer1 == Append(buffer, r.ch)
    IN  IF r.err # "" \/ r.hang
        THEN IF r.err # "" THEN Raise([m EXCEPT !.dev = r.dev], PyError(r.err))
             ELSE Raise(m, Hang)
        ELSE IF r.ch = ""
        THEN Raise([m EXCEPT !.dev = __reset_timeout(r.dev, read_timeout, old_timeout)],
                   GsmReadTimeoutError(buffer1))
        ELSE IF Last(buffer1, Len(read_term)) = read_term
        THEN Ret([m EXCEPT !.dev = __reset_timeout(r.dev, read_timeout, old_timeout)],
                 RStr(buffer1))
        ELSE _read_loop([m EXCEPT !.dev = r.dev], buffer1, read_term,
                        read_timeout, old_timeout)

\* GsmModem._read
_read(m, read_term, read_timeout) ==
    LET old_timeout == m.dev.timeout
        m1 == IF read_timeout # None
              THEN [m EXCEPT !.dev.timeout = read_timeout]
              ELSE m
        term == IF read_term = <<>> THEN CRLF ELSE read_term
    IN  _read_loop(m1, <<>>, term, read_timeout, old_timeout)

S_PLUS_CM == <<"+", "C", "M">>
S_SP_ERROR == <<" ", "E", "R", "R", "O", "R", ":", " ">>

\* re.match(r"^\+(CM[ES]) ERROR: (\d+)$", buf): <<type, code>>, or <<>>.
MatchCodedError(buf) ==
    IF /\ Len(buf) >= 13
       /\ SubSeq(buf, 1, 3) = S_PLUS_CM
       /\ buf[4] \in {"E", "S"}
       /\ SubSeq(buf, 5, 12) = S_SP_ERROR
       /\ IsDigits(SliceFrom(buf, 12))
    THEN <<IF buf[4] = "E" THEN "CME" ELSE "CMS", int(SliceFrom(buf, 12))>>
    ELSE <<>>

RECURSIVE _wait_loop(_, _, _, _)

\* wait_line, were the response returned without the OK that ended it.
wait_line_without_ok(m, buf, buffer, read_term, read_timeout) ==
    IF buf = S_OK THEN Ret(m, RLines(buffer))
    ELSE IF MatchCodedError(buf) # <<>>
    THEN Raise(m, GsmModemError(MatchCodedError(buf)[1], MatchCodedError(buf)[2]))
    ELSE IF buf = S_ERROR THEN Raise(m, GsmModemError("", None))
    ELSE IF buf = S_COMMAND_NOT_SUPPORT THEN Raise(m, GsmModemError("", None))
    ELSE _wait_loop(m, Append(buffer, buf), read_term, read_timeout)

\* wait_line, were the vendor's "COMMAND NOT SUPPORT" kept as a line of
\* the response.
wait_line_standard_errors(m, buf, buffer, read_term, read_timeout) ==
    IF buf = S_OK THEN Ret(m, RLines(Append(buffer, buf)))
    ELSE IF MatchCodedError(buf) # <<>>
    THEN Raise(m, GsmModemError(MatchCodedError(buf)[1], MatchCodedError(buf)[2]))
    ELSE IF buf = S_ERROR THEN Raise(m, GsmModemError("", None))
    ELSE _wait_loop(m, Append(buffer, buf), read_term, read_timeout)

\* The body of the while(True) of GsmModem._wait for a line buf that was
\* read and stripped: a terminator ends the wait, anything else is kept.
wait_line(m, buf, buffer, read_term, read_timeout) ==
    IF buf = S_OK THEN Ret(m, RLines(Append(buffer, buf)))
    ELSE IF MatchCodedError(buf) # <<>>
    THEN Raise(m, GsmModemError(MatchCodedError(buf)[1], MatchCodedError(buf)[2]))
    ELSE IF buf = S_ERROR THEN Raise(m, GsmModemError("", None))
    ELSE IF buf = S_COMMAND_NOT_SUPPORT THEN Raise(m, GsmModemError("", None))
    ELSE _wait_loop(m, Append(buffer, buf), read_term, read_timeout)

\* ... for the outcome r of the read
wait_read(r, buffer, read_term, read_timeout) ==
    IF Raised(r) THEN r
    ELSE wait_line(r.m, strip(r.ret.str), buffer, read_term, read_timeout)

\* The while(True) of GsmModem._wait: collect lines until a terminator.
_wait_loop(m, buffer, read_term, read_timeout) ==
    wait_read(_read(m, read_term, read_timeout), buffer, read_term, read_timeout)

\* GsmModem._wait
_wait(m, read_term, read_timeout) == _wait_loop(m, <<>>, read_term, read_timeout)

---------------------------------------------------------------------------
(* The incoming message assembler: service-centre timestamps, the guess    *)
(* at the text's encoding, and the queue.                                  *)

\* The characters of codes 32..126, in order (the grave accent, which a
\* string of this language cannot hold, by its code).
AsciiTable ==
    <<
      " ", "!", "\"", "#", "$", "%", "&", "'", "(", ")", "*", "+",
      ",", "-", ".", "/", "0", "1", "2", "3", "4", "5", "6", "7",
      "8", "9", ":", ";", "<", "=", ">", "?", "@", "A", "B", "C",
      "D", "E", "F", "G", "H", "I", "J", "K", "L", "M", "N", "O",
      "P", "Q", "R", "S", "T", "U", "V", "W", "X", "Y", "Z", "[",
      "\\", "]", "^", "_", "<96>", "a", "b", "c", "d", "e", "f", "g",
      "h", "i", "j", "k", "l", "m", "n", "o", "p", "q", "r", "s",
      "t", "u", "v", "w", "x", "y", "z", "{", "|", "}", "~"
    >>

\* unichr(n): the character of code n, printable ASCII as itself and any
\* other named by its code.
Chr(n) ==
    IF n >= 32 /\ n <= 126 THEN AsciiTable[n - 31]
    ELSE IF n = 9 THEN "\t"
    ELSE IF n = 10 THEN "\n"
    ELSE IF n = 13 THEN "\r"
    ELSE "<" \o ToString(n) \o ">"

HexUpper == Digits \cup {"A", "B", "C", "D", "E", "F"}

HexVal(c) ==
    CASE c \in Digits -> DigitVal(c)
      [] c \in {"A", "a"} -> 10 [] c \in {"B", "b"} -> 11
      [] c \in {"C", "c"} -> 12 [] c \in {"D", "d"} -> 13
      [] c \in {"E", "e"} -> 14 [] c \in {"F", "f"} -> 15

\* text.decode("hex"): one byte for every two hex digits.
RECURSIVE decode_hex(_)
decode_hex(text) ==
    IF Len(text) < 2 THEN <<>>
    ELSE <<16 * HexVal(text[1]) + HexVal(text[2])>> \o decode_hex(SliceFrom(text, 2))

\* The 16-bit code units of a byte string, big- or little-endian.
RECURSIVE code_units(_, _)
code_units(bytes, big) ==
    IF Len(bytes) < 2 THEN <<>>
    ELSE <<IF big THEN 256 * bytes[1] + bytes[2] ELSE 256 * bytes[2] + bytes[1]>>
         \o code_units(SliceFrom(bytes, 2), big)

IsHighSurrogate(u) == u >= 55296 /\ u <= 56319
IsLowSurrogate(u) == u >= 56320 /\ u <= 57343

\* Whether the code units are well-formed UTF-16: every high surrogate is
\* followed by a low one, and no low surrogate stands alone.
RECURSIVE well_formed(_)
well_formed(units) ==
    IF units = <<>> THEN TRUE
    ELSE IF IsHighSurrogate(units[1])
    THEN Len(units) >= 2 /\ IsLowSurrogate(units[2]) /\ well_formed(SliceFrom(units, 2))
    ELSE ~IsLowSurrogate(units[1]) /\ well_formed(Tail(units))

\* The characters of well-formed code units (a surrogate pair is one).
RECURSIVE code_points(_)
code_points(units) ==
    IF units = <<>> THEN <<>>
    ELSE IF IsHighSurrogate(units[1])
    THEN <<Chr(65536 + 1024 * (units[1] - 55296) + (units[2] - 56320))>>
         \o code_points(SliceFrom(units, 2))
    ELSE <<Chr(units[1])>> \o code_points(Tail(units))

\* The text of code units: [ok, text]; not ok is UnicodeDecodeError.
decode_units(units) ==
    IF well_formed(units) THEN [ok |-> TRUE, text |-> code_points(units)]
    ELSE [ok |-> FALSE, text |-> <<>>]

\* bytes.decode("utf-16") of a byte string that starts with a byte order
\* mark (FE FF for big-endian).
decode_utf16(bytes) == decode_units(code_units(SliceFrom(bytes, 2), bytes[1] = 254))

S_feff == <<"f", "e", "f", "f">>

\* The end of the try block of _add_incoming: the decoded text, or, if
\* decoding raised, the text as the statement before left it.
decoded(d, text) == IF d.ok THEN d.text ELSE text

\* text.decode("hex").decode("utf-16") within the try block.
decode_text(text) == decoded(decode_utf16(decode_hex(text)), text)

\* The try block of _add_incoming: the text as it is after the guess.  A
\* text of uppercase hex digits whose length is a positive multiple of
\* four is given a byte order mark unless it starts with one, and decoded.
guess_encoding(text) ==
    IF (Len(text) % 4 = 0) /\ (Len(text) > 0)
       /\ (\A i \in 1..Len(text) : text[i] \in HexUpper)
    THEN decode_text(IF /\ Slice(text, 0, 4) # <<"F", "F", "F", "E">>
                        /\ Slice(text, 0, 4) # <<"F", "E", "F", "F">>
                     THEN S_feff \o text
                     ELSE text)
    ELSE text

\* The index of the first occurrence of character c in s, or 0.
Find(s, c) ==
    IF \E i \in 1..Len(s) : s[i] = c
    THEN CHOOSE i \in 1..Len(s) : s[i] = c /\ \A j \in 1..(i - 1) : s[j] # c
    ELSE 0

SplitAtIndex(s, i) ==
    IF i = 0 THEN <<>> ELSE <<SubSeq(s, 1, i - 1), SubSeq(s, i + 1, Len(s))>>

\* <<before, after>> the first occurrence of character c in s, or <<>>.
SplitAt(s, c) == SplitAtIndex(s, Find(s, c))

\* A strptime number field: one or two digits within [lo, hi]; a field
\* that must have two digits has `two`.
FieldOk(f, lo, hi, two) ==
    /\ IsDigits(f)
    /\ Len(f) <= 2
    /\ two => Len(f) = 2
    /\ int(f) >= lo /\ int(f) <= hi

IsLeap(y) == (y % 4 = 0 /\ y % 100 # 0) \/ y % 400 = 0

DaysInMonth(y, mo) ==
    IF mo = 2 THEN (IF IsLeap(y) THEN 29 ELSE 28)
    ELSE IF mo \in {4, 6, 9, 11} THEN 30
    ELSE 31

NoneTime == [kind |-> "None"]
datetime(y, mo, d, h, mi, sec) ==
    [kind |-> "datetime", year |-> y, month |-> mo, day |-> d,
     hour |-> h, minute |-> mi, second |-> sec]

\* A date moved by k days.
RECURSIVE AddDays(_, _)
AddDays(dt, k) ==
    IF k = 0 THEN dt
    ELSE IF k > 0
    THEN AddDays(IF dt.day < DaysInMonth(dt.year, dt.month)
                 THEN [dt EXCEPT !.day = @ + 1]
                 ELSE IF dt.month < 12
                 THEN [dt EXCEPT !.day = 1, !.month = @ + 1]
                 ELSE [dt EXCEPT !.day = 1, !.month = 1, !.year = @ + 1],
                 k - 1)
    ELSE AddDays(IF dt.day > 1
                 THEN [dt EXCEPT !.day = @ - 1]
                 ELSE IF dt.month > 1
                 THEN [dt EXCEPT !.day = DaysInMonth(dt.year, dt.month - 1),
                                 !.month = @ - 1]
                 ELSE [dt EXCEPT !.day = 31, !.month = 12, !.year = @ - 1],
                 k + 1)

\* dt - timedelta(minutes=offset)
MinusMinutes(dt, offset) ==
    LET total == dt.hour * 60 + dt.minute - offset
        moved == AddDays(dt, total \div 1440)
    IN  [moved EXCEPT !.hour = (total % 1440) \div 60,
                      !.minute = (total % 1440) % 60]

\* The year of a two-digit %y.
Century(yy) == IF yy >= 69 THEN 1900 + yy ELSE 2000 + yy

\* The datetime of the six fields of a timestamp, or NoneTime where
\* strptime or datetime raises ValueError.
FromFields(yy, mm, dd, HH, MM, SS) ==
    IF /\ FieldOk(yy, 0, 99, TRUE)
       /\ FieldOk(mm, 1, 12, FALSE)
       /\ FieldOk(dd, 1, 31, FALSE)
       /\ FieldOk(HH, 0, 23, FALSE)
       /\ FieldOk(MM, 0, 59, FALSE)
       /\ FieldOk(SS, 0, 61, FALSE)
       /\ int(dd) <= DaysInMonth(Century(int(yy)), int(mm))
       /\ int(SS) <= 59
    THEN datetime(Century(int(yy)), int(mm), int(dd), int(HH), int(MM), int(SS))
    ELSE NoneTime

\* The fields of a timestamp, split one separator after the other.
Seconds(yy, mm, dd, HH, e) ==
    IF e = <<>> THEN NoneTime ELSE FromFields(yy, mm, dd, HH, e[1], e[2])
Minutes(yy, mm, dd, d) ==
    IF d = <<>> THEN NoneTime ELSE Seconds(yy, mm, dd, d[1], SplitAt(d[2], ":"))
Hours(yy, mm, c) ==
    IF c = <<>> THEN NoneTime
    ELSE Minutes(yy, mm,
                 IF Len(c[1]) = 2 /\ c[1][1] = " " THEN Tail(c[1]) ELSE c[1],
                 SplitAt(c[2], ":"))
Days(yy, b) ==
    IF b = <<>> THEN NoneTime ELSE Hours(yy, b[1], SplitAt(b[2], ","))
Months(a) ==
    IF a = <<>> THEN NoneTime ELSE Days(a[1], SplitAt(a[2], "/"))

\* time.strptime(timestamp, "%y/%m/%d,%H:%M:%S") and the datetime built
\* from its first six fields: the datetime, or NoneTime where either
\* raises ValueError.
strptime(timestamp) == Months(SplitAt(timestamp, "/"))

\* re.search(r"\-(\d+)$", timestamp): the index of the "-" that begins a
\* run of digits ending the string, or 0.
TzAt(timestamp) ==
    LET at == {i \in 1..Len(timestamp) :
                  timestamp[i] = "-" /\ IsDigits(SliceFrom(timestamp, i))}
    IN  IF at = {} THEN 0 ELSE CHOOSE i \in at : \A j \in at : i <= j

\* dt - tz_offset, or None where the timestamp could not be parsed.
local_time(dt, tz_offset) ==
    IF dt = NoneTime THEN NoneTime ELSE MinusMinutes(dt, tz_offset)

\* _parse_incoming_timestamp for a timestamp whose time zone begins at
\* index k (0: it has none).  The offset is int(m.group(0)) * 15 minutes,
\* and group(0) is the whole match with its "-", so the integer is
\* negative; the offset is subtracted from the parsed time.
timestamp_at(timestamp, k) ==
    IF k > 0
    THEN local_time(strptime(SubSeq(timestamp, 1, k - 1)),
                    (0 - int(SliceFrom(timestamp, k))) * 15)
    ELSE local_time(strptime(timestamp), 0)

\* GsmModem._parse_incoming_timestamp
_parse_incoming_timestamp(timestamp) == timestamp_at(timestamp, TzAt(timestamp))

\* message.IncomingMessage(device, sender, sent, text)
IncomingMessage(sender, sent, text) ==
    [sender |-> sender, sent |-> sent, text |-> text]

\* The end of GsmModem._add_incoming: the message joins the queue.
queue_append(m, msg) ==
    [Log(m, "queue_append", msg) EXCEPT !.incoming_queue = Append(@, msg)]

\* GsmModem._add_incoming
_add_incoming(m, timestamp, sender, text) ==
    queue_append(m, IncomingMessage(sender, _parse_incoming_timestamp(timestamp),
                                    guess_encoding(text)))

---------------------------------------------------------------------------
(* The unsolicited-data filter and the command engine.                     *)

S_CMT == <<"+", "C", "M", "T", ":">>
S_CMT_OPEN == <<"+", "C", "M", "T", ":", " ", "\"">>
S_WIND == <<"+", "W", "I", "N", "D", ":">>
S_CREG == <<"+", "C", "R", "E", "G", ":">>
S_CGRED == <<"+", "C", "G", "R", "E", "D", ":">>

\* Whether s can match  "(.+?)".*?$  from its start: a character or
\* more, then a quote.
CanMatchStamp(s) == \E k \in 1..(Len(s) - 1) : s[k + 1] = "\""

\* Whether s can match  .*?,"(.+?)".*?$  from its start.
CanMatchRest(s) ==
    \E j \in 0..(Len(s) - 2) :
        s[j + 1] = "," /\ s[j + 2] = "\"" /\ CanMatchStamp(SliceFrom(s, j + 2))

\* Whether  ",.*?,"(.+?)".*?$  can match after the first i characters of
\* rest.
Group1End(rest, i) ==
    /\ rest[i + 1] = "\"" /\ rest[i + 2] = ","
    /\ CanMatchRest(SliceFrom(rest, i + 2))

\* Whether  ,"(.+?)".*?$  can match after the first j characters of s.
StampAt(s, j) ==
    /\ s[j + 1] = "," /\ s[j + 2] = "\""
    /\ CanMatchStamp(SliceFrom(s, j + 2))

\* The second group, at the start of s: the shortest run of a character
\* or more that a quote follows.
Group2(s) ==
    SubSeq(s, 1, CHOOSE k \in 1..(Len(s) - 1) :
                    s[k + 1] = "\"" /\ \A x \in 1..(k - 1) : s[x + 1] # "\"")

\* The second group of the match, s being what follows the first group's
\* quote and comma: the shortest  .*?  that lets the rest match.
AfterGroup1(s) ==
    Group2(SliceFrom(s, 2 + CHOOSE j \in 0..(Len(s) - 2) :
                              StampAt(s, j) /\ \A x \in 0..(j - 1) : ~StampAt(s, x)))

\* The match whose first group is the first i characters of rest.
QuotedAt(rest, i) == <<SubSeq(rest, 1, i), AfterGroup1(SliceFrom(rest, i + 2))>>

\* The match of  (.+?)",.*?,"(.+?)".*?$  at the start of rest: <<first
\* group, second group>>, each the shortest that lets the rest match, or
\* <<>>.
MatchQuoted(rest) ==
    IF \/ \A i \in 1..(Len(rest) - 2) : ~Group1End(rest, i)
       \/ \E i \in 1..Len(rest) : rest[i] = "\n"
    THEN <<>>
    ELSE QuotedAt(rest, CHOOSE i \in 1..(Len(rest) - 2) :
                    Group1End(rest, i) /\ \A x \in 1..(i - 1) : ~Group1End(rest, x))

\* re.match(r'^\+CMT: "(.+?)",.*?,"(.+?)".*?$', line): <<sender,
\* timestamp>>, or <<>>.
MatchCMT(line) ==
    IF ~StartsWith(line, S_CMT_OPEN) THEN <<>>
    ELSE MatchQuoted(SliceFrom(line, 7))

\* The list comprehension of command(): a line stays if it is not blank
\* or begins with a notification prefix.
RECURSIVE drop_blank(_)
drop_blank(lines) ==
    IF lines = <<>> THEN <<>>
    ELSE LET line == Head(lines) IN
         (IF \/ line # <<>>
             \/ Slice(line, 0, 6) = S_WIND
             \/ Slice(line, 0, 6) = S_CREG
             \/ Slice(line, 0, 7) = S_CGRED
          THEN <<line>> ELSE <<>>) \o drop_blank(Tail(lines))

\* time.sleep(seconds)
sleep(m, which) == Log(m, "sleep", which)

\* if sender not in self.multipart: self.multipart[sender] = []
multipart_entry(m, sender) ==
    IF sender \notin DOMAIN m.multipart
    THEN [Log(m, "multipart_new", sender) EXCEPT
            !.multipart = [s \in DOMAIN m.multipart \cup {sender} |->
                              IF s = sender THEN <<>> ELSE m.multipart[s]]]
    ELSE m

\* self.multipart[sender].append(part_text)
multipart_store(m, sender, part_text) ==
    [Log(m, "multipart_append", part_text) EXCEPT
        !.multipart[sender] = Append(@, part_text)]

\* multipart_del, were the sender's parts kept.
multipart_del_kept(m, sender) == Log(m, "multipart_del", sender)

\* del self.multipart[sender]
multipart_del(m, sender) ==
    [Log(m, "multipart_del", sender) EXCEPT
        !.multipart = [s \in DOMAIN m.multipart \ {sender} |-> m.multipart[s]]]

\* A part has been stored: stop unless it is the last part; the last part
\* has the parts joined and stored as the whole message.
multipart_last(m, sender, timestamp, text) ==
    IF Len(text) < 6 THEN Raise(m, PyError("IndexError"))
    ELSE IF text[6] # Chr173 THEN Ret(m, RNone)
    ELSE Ret(_add_incoming(multipart_del(m, sender), timestamp, sender,
                           join(m.multipart[sender])), RNone)

\* The "while True:" block of _parse_incoming_sms: file a part of a
\* multi-part message, or store a whole one.  Yields the modem, or the
\* exception an index out of range raises.
multipart_block(m, sender, timestamp, text) ==
    IF text = <<>> THEN Raise(m, PyError("IndexError"))
    ELSE IF text[1] = Chr130 /\ Len(text) < 2 THEN Raise(m, PyError("IndexError"))
    ELSE IF text[1] = Chr130 /\ text[2] = "@"
    THEN multipart_last(multipart_store(multipart_entry(m, sender), sender,
                                        SliceFrom(text, 7)),
                        sender, timestamp, text)
    ELSE Ret(_add_incoming(m, timestamp, sender, text), RNone)

RECURSIVE _parse_loop(_, _, _, _), command_loop(_, _, _, _, _, _, _),
          command(_, _, _, _, _, _)

\* parse_stored, were the notification alone jumped over.
parse_stored_header_only(b, lines, n, output_lines) ==
    IF Raised(b) THEN b ELSE _parse_loop(b.m, lines, n + 1, output_lines)

\* The message has been stored (or storing it raised): jump over the
\* notification and its text.
parse_stored(b, lines, n, output_lines) ==
    IF Raised(b) THEN b ELSE _parse_loop(b.m, lines, n + 2, output_lines)

\* AT+CNMA has been issued: a GsmError it raised is ignored.
parse_acked(ack, lines, n, output_lines, sender, timestamp, text) ==
    IF Raised(ack) /\ ~IsGsmError(ack.exc) THEN Raise(ack.m, ack.exc)
    ELSE parse_stored(multipart_block(ack.m, sender, timestamp, text),
                      lines, n, output_lines)

\* Line n is a notification, and match what the pattern made of it.  For
\* no match: n += 1, then "next" (an expression, not "continue"), then
\* m.groups() on None.
parse_cmt(m, lines, n, output_lines, match) ==
    IF match = <<>> THEN Raise(m, PyError("AttributeError"))
    ELSE IF ~(n + 1 < Len(lines)) THEN Raise(m, PyError("IndexError"))
    ELSE parse_acked(command(m, S_AT_CNMA, <<>>, None, CR, TRUE),
                     lines, n, output_lines, match[1], match[2],
                     strip(lines[n + 2]))

\* The while loop of GsmModem._parse_incoming_sms, at line n (from 0).
_parse_loop(m, lines, n, output_lines) ==
    IF ~(n < Len(lines)) THEN Ret(m, RLines(output_lines))
    ELSE IF Slice(lines[n + 1], 0, 5) # S_CMT
    THEN _parse_loop(m, lines, n + 1, Append(output_lines, lines[n + 1]))
    ELSE parse_cmt(m, lines, n, output_lines, MatchCMT(lines[n + 1]))

\* GsmModem._parse_incoming_sms
_parse_incoming_sms(m, lines) == _parse_loop(m, lines, 0, <<>>)

\* The end of command(): rest, and return what the parse left.
finish_parsed(p) ==
    IF Raised(p) THEN p ELSE Ret(sleep(p.m, "cmd_delay"), p.ret)

\* Every leading line that equals the command, dropped.
RECURSIVE drop_echoes(_, _)
drop_echoes(lines, cmd) ==
    IF lines # <<>> /\ Head(lines) = cmd THEN drop_echoes(Tail(lines), cmd) ELSE lines

\* command_finish, were the echo dropped as often as it is repeated.
command_finish_every_echo(m, cmd, lines) ==
    finish_parsed(_parse_incoming_sms(m, drop_blank(drop_echoes(lines, cmd))))

\* What follows the retry loop of command(), given the lines of a
\* response: drop the echo and the blank lines, take out the incoming
\* messages, rest, and return what is left.
command_finish(m, cmd, lines) ==
    finish_parsed(_parse_incoming_sms(m,
        drop_blank(IF lines[1] = cmd THEN Tail(lines) ELSE lines)))

\* is_busy, were every coded error taken for busy.
is_busy_any_code(err) == err.code # None

\* getattr(err, "code", None) == 515: GSM error 515, init or command in
\* progress.
is_busy(err) == err.code = 515

\* on_error, were raise_errors read the wrong way round.
on_error_inverted(m, err, raise_errors) ==
    IF raise_errors THEN Ret(m, RNone) ELSE Raise(m, err)

\* The end of command()'s exception handler: with raise_errors disabled
\* the error is ignored, otherwise it propagates.
on_error(m, err, raise_errors) ==
    IF ~raise_errors THEN Ret(m, RNone) ELSE Raise(m, err)

\* The with block of command(): the command is written and, if that did
\* not raise, the response awaited.
written_wait(w, read_term, read_timeout) ==
    IF Raised(w) THEN w ELSE _wait(w.m, read_term, read_timeout)

attempt(m, cmd, read_term, read_timeout, write_term) ==
    written_wait(_write(m, cmd \o write_term), read_term, read_timeout)

\* What command() makes of an attempt that returned ret or raised exc,
\* the lock released: a response is finished, busy is tried again after a
\* rest, another error is handled.
attempt_outcome(m, exc, ret, cmd, read_term, read_timeout, write_term, raise_errors, retries) ==
    IF exc = NoExc THEN command_finish(m, cmd, ret.lines)
    ELSE IF ~IsGsmError(exc) THEN Raise(m, exc)
    ELSE IF is_busy(exc)
    THEN command_loop(sleep(m, "retry_delay"), cmd, read_term, read_timeout,
                      write_term, raise_errors, retries + 1)
    ELSE on_error(m, exc, raise_errors)

\* Leaving the with block releases the lock; the outcome of the attempt
\* is noted.
attempt_done(r, cmd, read_term, read_timeout, write_term, raise_errors, retries) ==
    IF r.exc = Hang THEN r
    ELSE attempt_outcome(
            Log(Release(r.m), "attempt",
                [exc |-> r.exc, lines |-> IF Raised(r) THEN <<>> ELSE r.ret.lines]),
            r.exc, r.ret, cmd, read_term, read_timeout, write_term,
            raise_errors, retries)

\* The retry loop of command(), at its test.  When the loop ends with no
\* response, "lines" was never assigned.
command_loop(m, cmd, read_term, read_timeout, write_term, raise_errors, retries) ==
    IF ~(retries < max_retries)
    THEN Raise(m, PyError("UnboundLocalError"))
    ELSE attempt_done(attempt(Acquire(m), cmd, read_term, read_timeout, write_term),
                      cmd, read_term, read_timeout, write_term, raise_errors,
                      retries)

\* GsmModem.command
command(m, cmd, read_term, read_timeout, write_term, raise_errors) ==
    [command_loop([m EXCEPT !.depth = @ + 1], cmd, read_term, read_timeout,
                  write_term, raise_errors, 0)
        EXCEPT !.m.depth = @ - 1]

---------------------------------------------------------------------------
(* The operations built on the command engine.                             *)

NoPrefix == <<"<None>">>

\* The lines that start with prefix, without it and stripped.
RECURSIVE with_prefix(_, _)
with_prefix(lines, prefix) ==
    IF lines = <<>> THEN <<>>
    ELSE (IF Slice(Head(lines), 0, Len(prefix)) = prefix
          THEN <<strip(SliceFrom(Head(lines), Len(prefix)))>>
          ELSE <<>>) \o with_prefix(Tail(lines), prefix)

\* query_list once the command has returned.
query_lines(c, prefix) ==
    IF Raised(c) THEN c
    ELSE IF c.ret = RNone THEN Ret(c.m, RNone)
    ELSE IF c.ret.lines = <<>> THEN Raise(c.m, PyError("IndexError"))
    ELSE IF c.ret.lines[Len(c.ret.lines)] # S_OK THEN Ret(c.m, RNone)
    ELSE IF prefix # NoPrefix
    THEN Ret(c.m, RLines(with_prefix(SubSeq(c.ret.lines, 1, Len(c.ret.lines) - 1),
                                     prefix)))
    ELSE Ret(c.m, RLines(SubSeq(c.ret.lines, 1, Len(c.ret.lines) - 1)))

\* GsmModem.query_list
query_list(m, cmd, prefix) ==
    query_lines(command(m, cmd, <<>>, None, CR, FALSE), prefix)

\* query once query_list has returned: len() of the None that query_list
\* returns for a failed command raises TypeError.
query_one(q) ==
    IF Raised(q) THEN q
    ELSE IF q.ret = RNone THEN Raise(q.m, PyError("TypeError"))
    ELSE IF Len(q.ret.lines) = 1 THEN Ret(q.m, RStr(q.ret.lines[1]))
    ELSE Ret(q.m, RNone)

\* GsmModem.query
query(m, cmd, prefix) == query_one(query_list(m, cmd, prefix))

\* ping once the command has returned or raised.
pinged(c) ==
    IF ~Raised(c) THEN Ret(c.m, RTrue)
    ELSE IF IsGsmError(c.exc) THEN Ret(c.m, RNone)
    ELSE c

\* GsmModem.ping
ping(m) == pinged(command(m, S_AT, <<>>, None, CR, TRUE))

\* GsmModem._strip_ok
_strip_ok(lines) ==
    IF Len(lines) > 0 /\ lines[Len(lines)] = S_OK
    THEN SubSeq(lines, 1, Len(lines) - 1)
    ELSE lines

S_AT_CMGL ==
    <<"A", "T", "+", "C", "M", "G", "L", "=", "\"",
      "R", "E", "C", " ", "U", "N", "R", "E", "A", "D", "\"">>
S_CMGL_SP == <<"+", "C", "M", "G", "L", ":", " ">>

\* The length of the run of digits that s starts with.
RECURSIVE DigitRun(_)
DigitRun(s) == IF s # <<>> /\ Head(s) \in Digits THEN 1 + DigitRun(Tail(s)) ELSE 0

\* Whether  ","(.+?)",.*?,"(.+?)".*?$  can match after the first i
\* characters of s.
StatusEnd(s, i) ==
    /\ s[i + 1] = "\"" /\ s[i + 2] = "," /\ s[i + 3] = "\""
    /\ MatchQuoted(SliceFrom(s, i + 3)) # <<>>

\* The match whose status is the first i characters of s.
cmgl_fields(index, s, i) ==
    <<index, SubSeq(s, 1, i)>> \o MatchQuoted(SliceFrom(s, i + 3))

\* The match from the status on: the shortest status that lets the rest
\* match.
cmgl_status(index, s) ==
    IF \A i \in 1..(Len(s) - 3) : ~StatusEnd(s, i) THEN <<>>
    ELSE cmgl_fields(index, s, CHOOSE i \in 1..(Len(s) - 3) :
                        StatusEnd(s, i) /\ \A x \in 1..(i - 1) : ~StatusEnd(s, x))

\* The match from the index on, which is the first n characters of s.
cmgl_index(s, n) ==
    IF n = 0 \/ Slice(s, n, n + 2) # <<",", "\"">> THEN <<>>
    ELSE cmgl_status(SubSeq(s, 1, n), SliceFrom(s, n + 2))

\* CMGL_MATCHER.match(line), for
\* r'^\+CMGL: (\d+),"(.+?)","(.+?)",.*?,"(.+?)".*?$': <<index, status,
\* sender, timestamp>>, or <<>>.
MatchCMGL(line) ==
    IF ~StartsWith(line, S_CMGL_SP) \/ (\E i \in 1..Len(line) : line[i] = "\n")
    THEN <<>>
    ELSE cmgl_index(SliceFrom(line, 7), DigitRun(SliceFrom(line, 7)))

\* The inner loop of _fetch_stored_messages: the lines up to the next
\* header, written one after the other into the message buffer.
RECURSIVE content_lines(_)
content_lines(lines) ==
    IF lines = <<>> \/ MatchCMGL(Head(lines)) # <<>> THEN <<>>
    ELSE <<Head(lines)>> \o content_lines(Tail(lines))

RECURSIVE fetch_loop(_, _, _)

\* The message under a header: its content lines, joined and stripped.
fetch_content(m, lines, num_found, h, content) ==
    fetch_loop(_add_incoming(m, h[4], h[3], strip(join(content))),
               SliceFrom(lines, 1 + Len(content)), num_found + 1)

\* The first line must be a header.
fetch_header(m, lines, num_found, h) ==
    IF h = <<>> THEN Raise(m, GsmReadError)
    ELSE fetch_content(m, lines, num_found, h, content_lines(Tail(lines)))

\* The outer loop of _fetch_stored_messages: a header, then its content.
fetch_loop(m, lines, num_found) ==
    IF ~(Len(lines) > 0) THEN Ret(m, [kind |-> "int", int |-> num_found])
    ELSE fetch_header(m, lines, num_found, MatchCMGL(lines[1]))

\* _fetch_stored_messages once the command has returned or raised.
fetched(c) ==
    IF Raised(c) THEN c ELSE fetch_loop(c.m, _strip_ok(c.ret.lines), 0)

\* GsmModem._fetch_stored_messages
_fetch_stored_messages(m) == fetched(command(m, S_AT_CMGL, <<>>, None, CR, TRUE))

\* queue_pop, were the newest message taken.
queue_pop_newest(m) ==
    IF m.incoming_queue = <<>> THEN Ret(m, RNone)
    ELSE Ret([Log(m, "queue_pop", m.incoming_queue[Len(m.incoming_queue)])
                 EXCEPT !.incoming_queue = SubSeq(@, 1, Len(@) - 1)],
             RMsg(m.incoming_queue[Len(m.incoming_queue)]))

\* The end of next_message: nothing for an empty queue, or the message
\* that has waited longest, removed from the queue.
queue_pop(m) ==
    IF m.incoming_queue = <<>> THEN Ret(m, RNone)
    ELSE Ret([Log(m, "queue_pop", Head(m.incoming_queue))
                 EXCEPT !.incoming_queue = Tail(@)],
             RMsg(Head(m.incoming_queue)))

\* next_message after the optional fetch.
after_fetch(f) == IF Raised(f) THEN f ELSE queue_pop(f.m)

\* next_message after the optional ping.
after_ping(p, fetch) ==
    IF Raised(p) THEN p
    ELSE after_fetch(IF fetch THEN _fetch_stored_messages(p.m) ELSE Ret(p.m, RNone))

\* GsmModem.next_message
next_message(m, do_ping, fetch) ==
    after_ping(IF do_ping THEN ping(m) ELSE Ret(m, RNone), fetch)

S_AT_CSMP_Q == <<"A", "T", "+", "C", "S", "M", "P", "?">>
S_CSMP == <<"+", "C", "S", "M", "P", ":">>
S_AT_CSCS_HEX == <<"A", "T", "+", "C", "S", "C", "S", "=", "\"", "H", "E", "X", "\"">>
S_AT_CSCS_GSM == <<"A", "T", "+", "C", "S", "C", "S", "=", "\"", "G", "S", "M", "\"">>
S_AT_CSMP_EQ == <<"A", "T", "+", "C", "S", "M", "P", "=">>
S_AT_CMGS_OPEN == <<"A", "T", "+", "C", "M", "G", "S", "=", "\"">>
S_fffe == <<"f", "f", "f", "e">>
HexLower ==
    <<"0", "1", "2", "3", "4", "5", "6", "7", "8", "9", "a", "b", "c", "d", "e", "f">>

\* The largest character code of the texts considered.
MaxOrd == 255

\* ord(c)
Ord(c) == CHOOSE n \in 0..MaxOrd : Chr(n) = c

\* The characters str() can encode.
AsciiChars == {Chr(n) : n \in 0..127}

\* s.split(",")
RECURSIVE split_comma(_)
split_comma(s) ==
    LET a == SplitAt(s, ",") IN
    IF a = <<>> THEN <<s>> ELSE <<a[1]>> \o split_comma(a[2])

\* ",".join(fields)
RECURSIVE join_comma(_)
join_comma(fields) ==
    IF fields = <<>> THEN <<>>
    ELSE IF Len(fields) = 1 THEN fields[1]
    ELSE fields[1] \o <<",">> \o join_comma(Tail(fields))

hex_byte(b) == <<HexLower[(b \div 16) + 1], HexLower[(b % 16) + 1]>>

\* The hex digits of the little-endian code units of the characters.
RECURSIVE encode_units(_)
encode_units(chars) ==
    IF chars = <<>> THEN <<>>
    ELSE hex_byte(Ord(Head(chars)) % 256) \o hex_byte(Ord(Head(chars)) \div 256)
         \o encode_units(Tail(chars))

\* text.encode("utf-16").encode("hex"): a byte order mark, then the text.
encode_utf16_hex(chars) == S_fffe \o encode_units(chars)

\* No mode stored: old_mode is None.
NoMode == <<NoPrefix>>

\* Commands issued one after the other, each a <<cmd, raise_errors>>,
\* until one raises.
RECURSIVE commands(_, _)

commands_next(c, cmds) == IF Raised(c) THEN c ELSE commands(c.m, cmds)

commands(m, cmds) ==
    IF cmds = <<>> THEN Ret(m, RNone)
    ELSE commands_next(command(m, cmds[1][1], <<>>, None, CR, cmds[1][2]),
                       Tail(cmds))

\* The modes have been set (or setting them raised): the text is encoded.
prepare_done(c, old_mode, text) ==
    [r |-> c, old_mode |-> old_mode,
     text |-> IF Raised(c) THEN text.chars ELSE encode_utf16_hex(text.chars)]

\* The stored mode is overridden with UCS2, in hex.
prepare_set(m, old_mode, text) ==
    IF Len(old_mode) < 4
    THEN [r |-> Raise(m, PyError("IndexError")), old_mode |-> old_mode,
          text |-> text.chars]
    ELSE prepare_done(
            commands(m, << <<S_AT_CSCS_HEX, TRUE>>,
                           <<S_AT_CSMP_EQ
                               \o join_comma([old_mode EXCEPT ![4] = <<"8">>]),
                             TRUE>> >>),
            old_mode, text)

\* The current mode has been asked for.
prepare_mode(q, text) ==
    IF Raised(q) \/ q.ret = RNone
    THEN [r |-> q, old_mode |-> NoMode, text |-> text.chars]
    ELSE prepare_set(q.m, split_comma(q.ret.str), text)

\* What send_sms does with the text before it starts the message: str(text)
\* and, if that raises UnicodeEncodeError, the switch to UCS2.  Yields the
\* outcome so far, old_mode and the text to send.
sms_prepare(m, text) ==
    IF ~(text.unicode /\ \E i \in 1..Len(text.chars) : text.chars[i] \notin AsciiChars)
    THEN [r |-> Ret(m, RNone), old_mode |-> NoMode, text |-> text.chars]
    ELSE prepare_mode(query(m, S_AT_CSMP_Q, S_CSMP), text)

\* The stored mode has been put back (or putting it back raised).
finally_done(r, c) == IF Raised(c) THEN c ELSE [r EXCEPT !.m = c.m]

\* The finally block of send_sms: put the stored mode back.  An exception
\* raised here replaces the outcome.
sms_finally(r, old_mode) ==
    IF old_mode = NoMode THEN r
    ELSE finally_done(r,
            commands(r.m, << <<S_AT_CSMP_EQ \o join_comma(old_mode), TRUE>>,
                             <<S_AT_CSCS_GSM, TRUE>> >>))

\* The text has been sent at the prompt: return True, or raise what
\* sending it raised.
sms_sent(b) == IF Raised(b) THEN b ELSE Ret(b.m, RTrue)

\* The inner try of send_sms once the message has been initiated.  A read
\* timeout with the prompt pending has the text sent, ended by ctrl+z;
\* any other exception is raised again; a response falls through.
sms_prompted(init, text) ==
    IF init.exc.type = "GsmReadTimeoutError" /\ init.exc.pending_data[1] = ">"
    THEN sms_sent(command(init.m, text, <<>>, None, <<Chr26>>, TRUE))
    ELSE IF Raised(init) THEN init
    ELSE Ret(init.m, RNone)

\* Initiate the sms, with a second for the device to raise an error.
sms_initiate(prep, recipient) ==
    IF Raised(prep.r) THEN prep.r
    ELSE command(prep.r.m, S_AT_CMGS_OPEN \o recipient \o <<"\"">>,
                 <<>>, 1, CR, TRUE)

\* An exception that leaves the inner try is noted.
note_raised(inner) ==
    IF Raised(inner) THEN [inner EXCEPT !.m = Log(@, "raised", inner.exc)]
    ELSE inner

\* The escape has been written (or writing it raised): return None.
abort_written(w) == IF Raised(w) THEN w ELSE Ret(w.m, RNone)

\* sms_abort, were the handler "except errors.GsmError".
sms_abort_gsm_errors(inner) ==
    IF IsGsmError(inner.exc) THEN abort_written(_write(inner.m, <<Chr27>>))
    ELSE inner

\* except Exception: whatever went wrong, break out of the message prompt.
sms_abort(inner) ==
    IF IsException(inner.exc) THEN abort_written(_write(inner.m, <<Chr27>>))
    ELSE inner

\* Leaving the with block of send_sms releases the lock.
sms_release(f) == IF f.exc = Hang THEN f ELSE [f EXCEPT !.m = Release(@)]

sms_end(outer, old_mode) ==
    IF outer.exc = Hang THEN outer ELSE sms_release(sms_finally(outer, old_mode))

\* The try blocks of send_sms, the text prepared.
sms_body(prep, recipient) ==
    sms_end(sms_abort(note_raised(
                sms_prompted(sms_initiate(prep, recipient), prep.text))),
            prep.old_mode)

\* GsmModem.send_sms
send_sms(m, recipient, text) == sms_body(sms_prepare(Acquire(m), text), recipient)

S_ATE0 == <<"A", "T", "E", "0">>
S_AT_CMEE_1 == <<"A", "T", "+", "C", "M", "E", "E", "=", "1">>
S_AT_WIND_0 == <<"A", "T", "+", "W", "I", "N", "D", "=", "0">>
S_AT_CMGF_1 == <<"A", "T", "+", "C", "M", "G", "F", "=", "1">>
S_AT_CFUN_1 == <<"A", "T", "+", "C", "F", "U", "N", "=", "1">>

\* boot() returns self.
booted(r) == IF Raised(r) THEN r ELSE Ret(r.m, [kind |-> "self"])

\* GsmModem.disconnect: the device is closed and dropped only under
\* "self.device is None", where isOpen() is asked of None; a device that
\* is there is left as it is, and False returned.
disconnect(m) ==
    IF m.dev.kind = "None"
    THEN Raise(Log(m, "disconnect", "None"), PyError("AttributeError"))
    ELSE Ret(Log(m, "disconnect", "kept"), RFalse)

\* The port once open: a device that answers as the script says, with
\* the read timeout of the port's arguments.
Opened(dev) == NewDevice("script", 1, dev.script)

\* serial.Serial(*self.device_args, **self.device_kwargs) within the
\* modem lock: the port opens, or SerialException is raised and wrapped.
open_port(m) ==
    IF m.dev.port = "opens"
    THEN Ret(Release(Log(Acquire([m EXCEPT !.dev = Opened(@)]), "open", "new")),
             [kind |-> "device"])
    ELSE IF m.dev.port = "could not open port" THEN Raise(m, GsmConnectError)
    ELSE Raise(m, GsmError)

RECURSIVE connect(_, _)

\* A reconnect that also resets the modem it finds.
reconnected_after_reset(d) ==
    IF Raised(d) THEN d
    ELSE connect(command(d.m, S_AT_CFUN_1, <<>>, None, CR, FALSE).m, FALSE)

\* connect(reconnect=True) once disconnect() has returned or raised.
reconnected(d) == IF Raised(d) THEN d ELSE connect(d.m, FALSE)

\* GsmModem.connect
connect(m, reconnect) ==
    IF m.dev.kind = "None" THEN open_port(m)
    ELSE IF reconnect THEN reconnected(disconnect(m))
    ELSE Ret(m, [kind |-> "device"])

\* boot() once connect() has returned or raised.
boot_connected(c, reboot) ==
    IF Raised(c) THEN c
    ELSE booted(commands(c.m,
            (IF reboot THEN << <<S_AT_CFUN_1, TRUE>> >> ELSE <<>>)
            \o << <<S_ATE0, FALSE>>, <<S_AT_CMEE_1, FALSE>>,
                  <<S_AT_WIND_0, FALSE>>, <<S_AT_CMGF_1, TRUE>> >>))

\* GsmModem.boot
boot(m, reboot) == boot_connected(connect(m, reboot), reboot)


S_AT_CSQ == <<"A", "T", "+", "C", "S", "Q">>
S_CSQ_SP == <<"+", "C", "S", "Q", ":", " ">>

RInt(n) == [kind |-> "int", int |-> n]

\* re.match(r"^\+CSQ: (\d+),", data): the digits, or <<>> for no match.
MatchCSQ(data) ==
    IF /\ StartsWith(data, S_CSQ_SP)
       /\ DigitRun(SliceFrom(data, 6)) > 0
       /\ Len(data) > 6 + DigitRun(SliceFrom(data, 6))
       /\ data[7 + DigitRun(SliceFrom(data, 6))] = ","
    THEN SubSeq(data, 7, 6 + DigitRun(SliceFrom(data, 6)))
    ELSE <<>>

\* csq_value, were 99 taken for a strength.
csq_value_with_99(csq) == IF csq <= 99 THEN RInt(csq) ELSE RFalse

\* return csq if csq < 99 else False
csq_value(csq) == IF csq < 99 THEN RInt(csq) ELSE RFalse

\* signal_strength once the query has returned or raised.
strength_of(q) ==
    IF Raised(q) THEN q
    ELSE IF q.ret = RNone THEN Ret(q.m, RNone)
    ELSE IF MatchCSQ(q.ret.str) = <<>> THEN Ret(q.m, RNone)
    ELSE Ret(q.m, csq_value(int(MatchCSQ(q.ret.str))))

\* GsmModem.signal_strength
signal_strength(m) == strength_of(query(m, S_AT_CSQ, NoPrefix))

\* is_active, were every value but None taken for a signal.
is_active_unless_none(csq) == csq.kind # "None"

\* if csq: an integer other than 0 (False and None are not).
is_active(csq) == csq.kind = "int" /\ csq.int # 0

RECURSIVE wait_for_network(_)

\* The body of the loop of wait_for_network, the signal strength read:
\* return it if it shows a network, or rest for a second and ask again.
network_polled(c) ==
    IF Raised(c) THEN c
    ELSE IF is_active(c.ret) THEN Ret(Log(c.m, "signal", c.ret), c.ret)
    ELSE wait_for_network(sleep(Log(c.m, "signal", c.ret), "poll"))

\* GsmModem.wait_for_network
wait_for_network(m) == network_polled(signal_strength(m))

---------------------------------------------------------------------------
(* The modem as a state machine.  The state is the modem's device, its     *)
(* pending multipart fragments, its incoming queue, its retry limit, the   *)
(* depth to which the modem lock is held, and a record of the last call:   *)
(* what was called with which arguments, what came back, and the events    *)
(* of the call in order.  A call is one step: callers are serialised by    *)
(* the modem lock or are a single thread.  The devices considered have a   *)
(* read timeout, so a read of a silent line ends.                          *)

\* The largest retry limit and the number of calls followed.
MaxRetries == 2
MaxOps == 2

\* The modem that a call starts from: the state, with the device set to
\* answer the writes to come as the script says.
Modem(script) ==
    [dev |-> [device EXCEPT !.script = script],
     multipart |-> multipart, incoming_queue |-> incoming_queue,
     lock |-> modem_lock, depth |-> 0, log |-> <<>>]

\* The state after a call with outcome r.  Answers that the device was
\* never asked for are forgotten.
Done(op, args, r) ==
    /\ device' = [r.m.dev EXCEPT !.script = <<>>]
    /\ multipart' = r.m.multipart
    /\ incoming_queue' = r.m.incoming_queue
    /\ modem_lock' = r.m.lock
    /\ max_retries' = max_retries
    /\ last' = [op |-> op, args |-> args, ret |-> r.ret, exc |-> r.exc,
                log |-> r.m.log, pre_device |-> device,
                pre_queue |-> incoming_queue, pre_multipart |-> multipart,
                n |-> last.n + 1]
    /\ threads' = threads

\* A call can be made: the calls so far are within the bound, and none
\* of them is still waiting for the device.
CanCall ==
    /\ last.n < MaxOps
    /\ last.exc # Hang

NoCall ==
    [op |-> "none", args |-> <<>>, ret |-> RNone, exc |-> NoExc, log |-> <<>>,
     pre_device |-> <<>>, pre_queue |-> <<>>, pre_multipart |-> <<>>, n |-> 0]

\* The threads that call the modem at the same time.
Callers == {1, 2}

\* A caller that is in no call: the frame of its call, with the times
\* it has entered the modem lock and not left it.
Idle ==
    [op |-> "none", at |-> "idle", cmd |-> <<>>, write_term |-> <<>>,
     read_timeout |-> None, retries |-> 0, lines |-> <<>>, phase |-> "none",
     held |-> 0, sms_held |-> FALSE, ret |-> RNone, exc |-> NoExc]

NoThreads == [call |-> [c \in Callers |-> Idle], trace |-> <<>>]

\* GsmModem.__init__ for a device handed in, with the retry limit set.
InitModem(dev) ==
    /\ device = dev
    /\ multipart = <<>>
    /\ incoming_queue = <<>>
    /\ max_retries \in 0..MaxRetries
    /\ modem_lock = 0
    /\ last = NoCall
    /\ threads = NoThreads

\* What a device puts on the line for one line of a response.
Out(line) == CRLF \o line \o CRLF

S_CSQ_LINE == <<"+", "C", "S", "Q", ":", " ", "2", "0", ",", "9", "9">>
S_CMS_ERROR_500 == <<"+", "C", "M", "S", " ", "E", "R", "R", "O", "R", ":", " ", "5", "0", "0">>
S_CME_ERROR_515 == <<"+", "C", "M", "E", " ", "E", "R", "R", "O", "R", ":", " ", "5", "1", "5">>
S_WIND_LINE == <<"+", "W", "I", "N", "D", ":", " ", "4">>

AnsOK == Answer(Out(S_OK))
AnsData == Answer(Out(S_CSQ_LINE) \o Out(S_OK))
AnsError == Answer(Out(S_ERROR))
AnsCms500 == Answer(Out(S_CMS_ERROR_500))
AnsCms515 == Answer(Out(S_CMS_ERROR_515))
AnsCme515 == Answer(Out(S_CME_ERROR_515))
AnsNotSupported == Answer(Out(S_COMMAND_NOT_SUPPORT))
AnsSilent == Answer(<<>>)
\* the command echoed, then OK
AnsEcho(cmd) == Answer(cmd \o CR \o Out(S_OK))
\* OK, then an unsolicited line that stays on the line for the next call
AnsOkThenWind == Answer(Out(S_OK) \o Out(S_WIND_LINE))
\* the command echoed twice, then OK
AnsEchoTwice(cmd) == Answer(cmd \o CRLF \o cmd \o CRLF \o Out(S_OK))
\* a line of data, then the command on a line of its own, then OK
AnsLateEcho(cmd) == Answer(Out(S_CSQ_LINE) \o cmd \o CRLF \o Out(S_OK))

\* k answers of +CMS ERROR: 515
RECURSIVE Busy(_)
Busy(k) == IF k = 0 THEN <<>> ELSE <<AnsCms515>> \o Busy(k - 1)

\* Each of n commands answered by the answers `each`, in turn.
RECURSIVE Times(_, _)
Times(n, each) == IF n = 0 THEN <<>> ELSE each \o Times(n - 1, each)


S_CMT_QUOTE == <<"+", "C", "M", "T", ":", " ", "\"">>
S_CMT_STAMP == <<"\"", ",", ",", "\"", "1", "0", "/", "0", "1", "/", "0", "2", ",", "0", "3", ":", "0", "4", ":", "0", "5", "+", "0", "4", "\"">>
S_HI == <<"h", "i">>
Sender1 == <<"1", "2", "3", "4">>
Sender2 == <<"5", "6", "7", "8">>

\* The header line of a notification of a message from sender.
CmtHeader(sender) == S_CMT_QUOTE \o sender \o S_CMT_STAMP

\* A response that carries a notification: the header line, the body
\* line, a blank line and OK.
AnsCmt(sender, body) ==
    Answer(Out(CmtHeader(sender)) \o body \o CRLF \o Out(S_OK))

\* The commands issued directly.
Cmds == {S_AT, S_AT_CSQ}

\* What the device answers to one attempt that is not busy.
Finals(cmd) ==
    {AnsOK, AnsData, AnsError, AnsCms500, AnsNotSupported, AnsSilent,
     WriteFails, AnsEcho(cmd), AnsOkThenWind}

\* The scripts for a command: busy some number of times and then a final
\* answer; busy with a +CME code; the echo repeated or late; a notification in the response, with the
\* answer to its acknowledgement.
CommandScripts(cmd) ==
    {Busy(k) \o <<f>> : k \in 0..(MaxRetries + 1), f \in Finals(cmd)}
    \cup {<<AnsCme515, AnsOK>>, <<AnsEchoTwice(cmd)>>, <<AnsLateEcho(cmd)>>}
    \cup {<<AnsCmt(Sender1, body), ack>> :
            body \in {S_HI, <<>>}, ack \in {AnsOK, AnsError, AnsSilent}}

\* The scripts for boot(): every command accepted, every command busy
\* once and then accepted, every command rejected, the device silent,
\* the device busy throughout, AT+CMGF alone rejected, and the first
\* command alone rejected.
BootScripts(reboot) ==
    LET n == IF reboot THEN 5 ELSE 4 IN
    {Times(n, <<AnsOK>>), Times(n, <<AnsCms515, AnsOK>>),
     Times(n, <<AnsError>>), <<>>, Busy(n * (MaxRetries + 1)),
     Times(n - 1, <<AnsOK>>) \o <<AnsError>>,
     <<AnsError>> \o Times(n - 1, <<AnsOK>>)}

\* modem.command(cmd, raise_errors=raise_errors)
Command ==
    /\ CanCall
    /\ \E cmd \in Cmds, raise_errors \in BOOLEAN :
         \E script \in CommandScripts(cmd) :
            Done("command",
                 [cmd |-> cmd, raise_errors |-> raise_errors, script |-> script],
                 command(Modem(script), cmd, <<>>, None, CR, raise_errors))

\* modem.boot(reboot)
Boot ==
    /\ CanCall
    /\ \E reboot \in BOOLEAN :
         \E script \in BootScripts(reboot) :
            Done("boot", [reboot |-> reboot, script |-> script],
                 boot(Modem(script), reboot))

\* A modem on a scripted device.
Init == InitModem(NewDevice("script", 1, <<>>))

Next == Command \/ Boot

Spec == Init /\ [][Next]_vars


---------------------------------------------------------------------------
(* Sending messages through a scripted device.                             *)

S_PROMPT == <<"\r", "\n", ">", " ">>
S_CSMP_LINE == <<"+", "C", "S", "M", "P", ":", " ", "1", "7", ",", "1", "6", "7", ",", "0", ",", "0">>
S_CSMP_SHORT == <<"+", "C", "S", "M", "P", ":", " ", "1", "7">>

\* The prompt for the text of a message, and the message accepted.
AnsPrompt == Answer(S_PROMPT)
AnsSent == Answer(Out(S_CMGS_1) \o Out(S_OK))
AnsCsmp == Answer(Out(S_CSMP_LINE) \o Out(S_OK))
AnsCsmpShort == Answer(Out(S_CSMP_SHORT) \o Out(S_OK))

\* A text of ASCII characters, and a unicode text with a character that
\* str() cannot encode.
TextHi == [unicode |-> FALSE, chars |-> S_HI]
TextAccent == [unicode |-> TRUE, chars |-> <<"h", Chr(233)>>]

\* What the device answers to AT+CMGS when it does not prompt, to the
\* text of the message, and to the escape.
InitFailures == {AnsOK, AnsError, AnsCms500, AnsSilent, WriteFails}
BodyAnswers == {AnsSent, AnsError, AnsCms500, AnsSilent, WriteFails}
AbortAnswers == {AnsSilent, WriteFails}

\* The scripts for sending an ASCII text: the message refused with or
\* without the device busy first, the message prompted for and the text
\* answered, and the device busy throughout.
AsciiScripts ==
    {Busy(k) \o <<f, a>> : k \in 0..1, f \in InitFailures, a \in AbortAnswers}
    \cup {<<AnsPrompt, b, a>> : b \in BodyAnswers, a \in AbortAnswers}
    \cup {<<AnsPrompt>> \o Busy(MaxRetries) \o <<AnsSent>>,
          <<AnsPrompt, AnsCms515, AnsSent>>,
          Busy(MaxRetries + 1)}

\* The scripts for sending a unicode text: the mode is asked for, UCS2 is
\* set, the message is sent and the mode put back, with each step failing
\* in turn; and a device that prompts for text when the character set is
\* switched.
UnicodeScripts ==
    {<<AnsCsmp, AnsOK, AnsOK, AnsPrompt, AnsSent, AnsOK, AnsOK>>,
     <<AnsCsmp, AnsOK, AnsOK, AnsPrompt, AnsError, AnsSilent, AnsOK, AnsOK>>,
     <<AnsCsmp, AnsOK, AnsOK, AnsError, AnsSilent, AnsOK, AnsError>>,
     <<AnsCsmp, AnsOK, AnsOK, AnsPrompt, AnsSent, AnsError>>,
     <<AnsCsmp, AnsError, AnsSilent, AnsOK, AnsOK>>,
     <<AnsCsmp, AnsOK, AnsSilent, AnsSilent, AnsOK, AnsOK>>,
     <<AnsCsmpShort, AnsSilent>>,
     <<AnsError, AnsSilent>>,
     <<AnsOK, AnsPrompt, AnsSent>>,
     <<AnsCsmp, AnsPrompt, AnsSent, AnsOK, AnsOK>>}

SmsScripts(text) == IF text.unicode THEN UnicodeScripts ELSE AsciiScripts

\* modem.send_sms(recipient, text)
SendSms ==
    /\ CanCall
    /\ \E recipient \in {Sender1}, text \in {TextHi, TextAccent} :
         \E script \in SmsScripts(text) :
            Done("send_sms",
                 [recipient |-> recipient, text |-> text, script |-> script],
                 send_sms(Modem(script), recipient, text))

NextSms == SendSms

SpecSms == Init /\ [][NextSms]_vars


---------------------------------------------------------------------------
(* The mock devices of the tests: a modem constructed on a                 *)
(* MockSenderDevice or a MockBusyDevice (neither has a read timeout of     *)
(* its own), booted, and used to send messages or issue commands.          *)

S_AT_TEST_1 == <<"A", "T", "+", "T", "E", "S", "T", "=", "1">>
S_TEST_MESSAGE == <<"T", "e", "s", "t", " ", "M", "e", "s", "s", "a", "g", "e">>

\* The texts sent through the mock device.
MockTexts == {S_HI, S_TEST_MESSAGE, S_OK, S_ERROR}

InitMock ==
    \E kind \in {"MockSenderDevice", "MockBusyDevice"} :
        InitModem(NewDevice(kind, None, <<>>))

\* modem.boot(reboot)
MockBoot ==
    /\ CanCall
    /\ \E reboot \in BOOLEAN :
         Done("boot", [reboot |-> reboot], boot(Modem(<<>>), reboot))

\* modem.send_sms(recipient, text), the text a str
MockSendSms ==
    /\ CanCall
    /\ device.kind = "MockSenderDevice"
    /\ \E recipient \in {Sender1, Sender2}, chars \in MockTexts :
         Done("send_sms",
              [recipient |-> recipient,
               text |-> [unicode |-> FALSE, chars |-> chars]],
              send_sms(Modem(<<>>), recipient, [unicode |-> FALSE, chars |-> chars]))

\* modem.command(cmd, raise_errors=raise_errors)
MockCommand ==
    /\ CanCall
    /\ device.kind = "MockBusyDevice"
    /\ \E cmd \in {S_AT_TEST_1, S_AT_CSQ}, raise_errors \in BOOLEAN :
         Done("command", [cmd |-> cmd, raise_errors |-> raise_errors],
              command(Modem(<<>>), cmd, <<>>, None, CR, raise_errors))

NextMock == MockBoot \/ MockSendSms \/ MockCommand

SpecMock == InitMock /\ [][NextMock]_vars

---------------------------------------------------------------------------
(* Incoming messages: notifications that arrive in the response to a       *)
(* command, messages stored on the device, and the queue they are taken    *)
(* from.                                                                   *)

S_CMGL_QUOTE == <<"+", "C", "M", "G", "L", ":", " ", "1", ",", "\"", "R", "E", "C", " ", "U", "N", "R", "E", "A", "D", "\"", ",", "\"">>
S_JUNK == <<"+", "C", "M", "G", "L", ":", " ", "j", "u", "n", "k">>

\* A part of a multi-part message: the marker (chr(130) and "@"), the
\* byte at offset 5 that is chr(173) in the last part, and the payload
\* from offset 7.
Fragment(final, payload) ==
    <<Chr130, "@", "0", "0", "0", IF final THEN Chr173 ELSE "1", "0">> \o payload

\* The bodies of the notifications that arrive: a first part, last
\* parts, and a part cut short.
First00 == Fragment(FALSE, <<"0", "0">>)
Last41 == Fragment(TRUE, <<"4", "1">>)
LastHi == Fragment(TRUE, S_HI)
CutShort == <<Chr130, "@", "0">>

Note(sender, body) == [sender |-> sender, body |-> body]

\* The notifications that arrive in one response: one, with a whole
\* message or a part, or two.
NoteSeqs ==
    {<<Note(Sender1, b)>> : b \in {S_HI, First00, Last41, LastHi, CutShort}}
    \cup {<<Note(Sender2, b)>> : b \in {First00, Last41}}
    \cup {<<Note(Sender1, First00), Note(Sender1, Last41)>>,
          <<Note(Sender1, First00), Note(Sender1, LastHi)>>,
          <<Note(Sender1, First00), Note(Sender2, Last41)>>,
          <<Note(Sender1, First00), Note(Sender1, First00)>>,
          <<Note(Sender1, S_HI), Note(Sender2, S_HI)>>}

\* What the device puts on the line for notifications, one after the
\* other.
RECURSIVE NotesOut(_)
NotesOut(notes) ==
    IF notes = <<>> THEN <<>>
    ELSE Out(CmtHeader(notes[1].sender)) \o notes[1].body \o CRLF
         \o NotesOut(Tail(notes))

\* A response that carries notifications, then OK.
AnsNotes(notes) == Answer(NotesOut(notes) \o Out(S_OK))

\* A response to AT+CMGL that lists one stored message.
AnsStored(sender, body) ==
    Answer(Out(S_CMGL_QUOTE \o sender \o S_CMT_STAMP) \o body \o CRLF \o Out(S_OK))
AnsJunk == Answer(Out(S_JUNK) \o Out(S_OK))

\* The scripts for next_message: what the device answers to the ping (and
\* to the acknowledgement of a notification that came with it) and to
\* the listing of stored messages.
PingScripts ==
    {<<AnsOK>>, <<AnsError>>, <<AnsSilent>>,
     <<AnsNotes(<<Note(Sender2, S_HI)>>), AnsOK>>}
FetchScripts ==
    {<<AnsOK>>, <<AnsError>>, <<AnsStored(Sender1, S_TEST_MESSAGE)>>, <<AnsJunk>>}
NextMessageScripts(do_ping, fetch) ==
    {p \o f : p \in (IF do_ping THEN PingScripts ELSE {<<>>}),
              f \in (IF fetch THEN FetchScripts ELSE {<<>>})}

\* One notification or two arrive in the response to a command, and the
\* device answers their acknowledgements alike.
Deliver ==
    /\ CanCall
    /\ \E notes \in NoteSeqs, ack \in {AnsOK, AnsError} :
            Done("deliver", [notes |-> notes, ack |-> ack],
                 command(Modem(<<AnsNotes(notes), ack, ack>>), S_AT, <<>>,
                         None, CR, TRUE))

\* modem.next_message(ping, fetch)
NextMessage ==
    /\ CanCall
    /\ \E do_ping \in BOOLEAN, fetch \in BOOLEAN :
         \E script \in NextMessageScripts(do_ping, fetch) :
            Done("next_message",
                 [ping |-> do_ping, fetch |-> fetch, script |-> script],
                 next_message(Modem(script), do_ping, fetch))

NextInbox == Deliver \/ NextMessage

SpecInbox == Init /\ [][NextInbox]_vars


---------------------------------------------------------------------------
(* Service-centre timestamps: notifications that differ in the timestamp   *)
(* of their header line.                                                   *)

\* A number below 100 as two decimal digits.
TwoDigits(n) ==
    <<CHOOSE c \in Digits : DigitVal(c) = n \div 10,
      CHOOSE c \in Digits : DigitVal(c) = n % 10>>

\* A time as the device writes it: YY/MM/DD,HH:MM:SS.
Scts(dt) ==
    TwoDigits(dt.year % 100) \o <<"/">> \o TwoDigits(dt.month) \o <<"/">>
    \o TwoDigits(dt.day) \o <<",">> \o TwoDigits(dt.hour) \o <<":">>
    \o TwoDigits(dt.minute) \o <<":">> \o TwoDigits(dt.second)

\* The times stamped: mid-morning, just after the start of a year, just
\* before the end of one, and on a leap day.
StampTimes ==
    {datetime(2023, 6, 1, 10, 0, 0), datetime(2023, 1, 1, 0, 10, 0),
     datetime(1999, 12, 31, 23, 50, 0), datetime(2024, 2, 29, 12, 30, 45)}

\* The digits that follow "-" in a time zone.
ZoneDigits == {<<"0", "4">>, <<"0", "0">>, <<"4", "8">>}

S_PLUS_04 == <<"+", "0", "4">>
S_MONTH_13 == <<"2", "3", "/", "1", "3", "/", "0", "1", ",", "1", "0", ":", "0", "0", ":", "0", "0", "-", "0", "4">>
S_FEB_30 == <<"2", "3", "/", "0", "2", "/", "3", "0", ",", "1", "0", ":", "0", "0", ":", "0", "0">>
S_NO_STAMP == <<"n", "o", "n", "e">>

\* The timestamps of the notifications: the text, the time it states
\* (NoneTime for a text that states none) and the digits of its zone
\* (none for a text without a zone).
Stamps ==
    {[text |-> Scts(t), time |-> t, digits |-> <<>>] : t \in StampTimes}
    \cup {[text |-> Scts(t) \o <<"-">> \o d, time |-> t, digits |-> d] :
            t \in StampTimes, d \in ZoneDigits}
    \cup {[text |-> x, time |-> NoneTime, digits |-> <<>>] :
            x \in {S_MONTH_13, S_FEB_30, S_NO_STAMP,
                   Scts(datetime(2023, 6, 1, 10, 0, 0)) \o S_PLUS_04}}

\* A response that carries a notification with the timestamp: the
\* header line, the body line and OK.
AnsCmtAt(sender, stamp, body) ==
    Answer(Out(S_CMT_QUOTE \o sender \o <<"\"", ",", ",", "\"">> \o stamp \o <<"\"">>)
           \o body \o CRLF \o Out(S_OK))

\* A notification with the timestamp arrives in the response to a
\* command, and the device answers its acknowledgement.
DeliverStamped ==
    /\ CanCall
    /\ \E stamp \in Stamps, ack \in {AnsOK, AnsError} :
            Done("deliver_stamped", [stamp |-> stamp, ack |-> ack],
                 command(Modem(<<AnsCmtAt(Sender1, stamp.text, S_HI), ack>>),
                         S_AT, <<>>, None, CR, TRUE))

NextStamp == DeliverStamped

SpecStamp == Init /\ [][NextStamp]_vars

---------------------------------------------------------------------------
(* Notifications among the lines of a response: lines of data, whole       *)
(* messages, parts of messages, notifications whose text looks like the    *)
(* end of a response, and +CMT lines that are no notification, with the    *)
(* device answering the acknowledgements one way or another.               *)

S_CMT_BAD == <<"+", "C", "M", "T", ":", " ", "j", "u", "n", "k">>

\* What a response carries before its OK: a line of data, a notification
\* with its text, or a +CMT line that the pattern does not match.
DataItem(text) == [kind |-> "line", text |-> text]
NoteItem(sender, body) == [kind |-> "note", sender |-> sender, body |-> body]
BadItem == [kind |-> "bad", text |-> S_CMT_BAD]

Items ==
    {DataItem(S_CSQ_LINE), BadItem, NoteItem(Sender1, S_HI),
     NoteItem(Sender1, First00), NoteItem(Sender1, S_OK),
     NoteItem(Sender1, S_ERROR)}

\* One item or two.
ItemSeqs == {<<a>> : a \in Items} \cup {<<a, b>> : a, b \in Items}

\* What the device puts on the line for the items, one after the other.
RECURSIVE ItemsOut(_)
ItemsOut(items) ==
    IF items = <<>> THEN <<>>
    ELSE (IF items[1].kind = "note"
          THEN Out(CmtHeader(items[1].sender)) \o items[1].body \o CRLF
          ELSE Out(items[1].text))
         \o ItemsOut(Tail(items))

NotesOf(items) == SelectSeq(items, LAMBDA a : a.kind = "note")

\* How the device answers AT+CNMA, every time it is written: it accepts,
\* rejects with or without a code, says nothing, or stays busy.
Acks == {AnsOK, AnsError, AnsCms500, AnsSilent, AnsCms515}

\* The answers to the acknowledgements of a response's notifications,
\* retries included.
AckScript(ack) == Times(2 * (MaxRetries + 1), <<ack>>)

\* The items arrive in the response to a command.
DeliverAmong ==
    /\ CanCall
    /\ \E items \in ItemSeqs :
         \E ack \in (IF NotesOf(items) = <<>> THEN {AnsOK} ELSE Acks) :
            Done("deliver_among", [items |-> items, ack |-> ack],
                 command(Modem(<<Answer(ItemsOut(items) \o Out(S_OK))>>
                               \o AckScript(ack)),
                         S_AT, <<>>, None, CR, TRUE))

NextNotify == DeliverAmong

SpecNotify == Init /\ [][NextNotify]_vars

---------------------------------------------------------------------------
(* Queries: query_list, query, and the signal strength read through them.  *)

S_CSQ_COLON == <<"+", "C", "S", "Q", ":">>
S_CSQ_99 == <<"+", "C", "S", "Q", ":", " ", "9", "9", ",", "9", "9">>
S_CSQ_0 == <<"+", "C", "S", "Q", ":", " ", "0", ",", "0">>
S_CSQ_BARE == <<"+", "C", "S", "Q", ":", " ", "2", "0">>
S_JUNK_LINE == <<"j", "u", "n", "k">>

\* A response of one line and OK.
AnsLine(line) == Answer(Out(line) \o Out(S_OK))
\* A response of two lines and OK.
AnsLines(line1, line2) == Answer(Out(line1) \o Out(line2) \o Out(S_OK))

\* The lines a device answers AT+CSQ with.
CsqLines == {S_CSQ_LINE, S_CSQ_99, S_CSQ_0, S_CSQ_BARE, S_JUNK_LINE}

\* The scripts for a query: one line, no line, two lines (both with the
\* prefix, or one of them), an error, silence, busy once and then a line.
QueryScripts ==
    {<<AnsLine(line)>> : line \in CsqLines}
    \cup {<<AnsOK>>, <<AnsError>>, <<AnsCms500>>, <<AnsNotSupported>>, <<AnsSilent>>,
          <<AnsLines(S_CSQ_LINE, S_CSQ_99)>>, <<AnsLines(S_CSQ_LINE, S_WIND_LINE)>>,
          <<AnsLines(S_JUNK_LINE, S_CSQ_LINE)>>, <<AnsEcho(S_AT_CSQ)>>,
          <<AnsCms515, AnsLine(S_CSQ_LINE)>>}

\* The number of times the signal strength is asked for.
MaxPolls == 3

\* The answers to the polls of wait_for_network.
PollAnswers == {AnsLine(S_CSQ_LINE), AnsLine(S_CSQ_99), AnsLine(S_CSQ_0),
                AnsLine(S_JUNK_LINE)}

RECURSIVE PollScripts(_)
PollScripts(n) ==
    IF n = 0 THEN {<<>>}
    ELSE PollScripts(n - 1)
         \cup {Append(p, a) : p \in {q \in PollScripts(n - 1) : Len(q) = n - 1},
                              a \in PollAnswers}

\* modem.query_list(cmd, prefix)
QueryList ==
    /\ CanCall
    /\ \E prefix \in {NoPrefix, S_CSQ_COLON} :
         \E script \in QueryScripts :
            Done("query_list", [cmd |-> S_AT_CSQ, prefix |-> prefix, script |-> script],
                 query_list(Modem(script), S_AT_CSQ, prefix))

\* modem.query(cmd, prefix)
Query ==
    /\ CanCall
    /\ \E prefix \in {NoPrefix, S_CSQ_COLON} :
         \E script \in QueryScripts :
            Done("query", [cmd |-> S_AT_CSQ, prefix |-> prefix, script |-> script],
                 query(Modem(script), S_AT_CSQ, prefix))

\* modem.signal_strength()
SignalStrength ==
    /\ CanCall
    /\ \E script \in QueryScripts :
            Done("signal_strength", [cmd |-> S_AT_CSQ, script |-> script],
                 signal_strength(Modem(script)))

\* modem.wait_for_network()
WaitForNetwork ==
    /\ CanCall
    /\ \E script \in PollScripts(MaxPolls) :
            Done("wait_for_network", [cmd |-> S_AT_CSQ, script |-> script],
                 wait_for_network(Modem(script)))

NextQuery == QueryList \/ Query \/ SignalStrength \/ WaitForNetwork

SpecQuery == Init /\ [][NextQuery]_vars

---------------------------------------------------------------------------
(* Connecting.  A modem is given its device, or the arguments of a serial  *)
(* port that connect() opens.                                              *)

\* reboot() returns nothing.
rebooted(b) == IF Raised(b) THEN b ELSE Ret(b.m, RNone)

\* GsmModem.reboot
reboot(m) == rebooted(boot(m, TRUE))

\* What opening the port does: it opens, or SerialException is raised
\* with a message that starts "could not open port", or with another.
Ports == {"opens", "could not open port", "other"}

\* modem.connect(reconnect)
Connect ==
    /\ CanCall
    /\ \E reconnect \in BOOLEAN :
         Done("connect", [reconnect |-> reconnect],
              connect(Modem(<<>>), reconnect))

\* modem.disconnect()
Disconnect ==
    /\ CanCall
    /\ Done("disconnect", [script |-> <<>>], disconnect(Modem(<<>>)))

\* modem.reboot()
Reboot ==
    /\ CanCall
    /\ \E script \in BootScripts(TRUE) :
         Done("reboot", [script |-> script], reboot(Modem(script)))

\* A modem on a scripted device, or on a port yet to be opened.
InitConnect ==
    \E dev \in {NewDevice("script", 1, <<>>)} \cup {NoDevice(p) : p \in Ports} :
        InitModem(dev)

NextConnect == Connect \/ Disconnect \/ Reboot \/ Boot

SpecConnect == InitConnect /\ [][NextConnect]_vars

---------------------------------------------------------------------------
(* Concurrent callers.  Two threads share one modem; each makes one call,  *)
(* command("AT") or send_sms, and the calls are taken a statement at a     *)
(* time: the loop test of command(), the entry to its with block, the      *)
(* write, the wait for the response, the exception handler, the rests,     *)
(* and the with block, the handlers and the exit of send_sms.  The device  *)
(* answers each write as it pleases, without notifications.  What passes   *)
(* over the transport, the rests and the returns are kept in order.        *)

\* threading.RLock: a thread enters the lock if no other thread is in it.
CanAcquire_unguarded(c) == TRUE

CanAcquire(c) == \A o \in Callers \ {c} : threads.call[o].held = 0

\* The depth to which the lock is held by whoever holds it.
Held(call) == call[1].held + call[2].held

\* Something that happened on behalf of caller c.
Trace(c, ev, data, fn) == [who |-> c, ev |-> ev, data |-> data, fn |-> fn]

\* Caller c goes on with frame f, the device left as dev, events noted.
Step(c, f, dev, events) ==
    /\ threads' = [call |-> [threads.call EXCEPT ![c] = f],
                   trace |-> threads.trace \o events]
    /\ device' = [dev EXCEPT !.script = <<>>]
    /\ modem_lock' = Held([threads.call EXCEPT ![c] = f])
    /\ UNCHANGED <<multipart, incoming_queue, max_retries, last>>

\* command(cmd, read_timeout=..., write_term=...) is entered: retries = 0.
StartCommand(f, cmd, read_timeout, write_term, phase) ==
    [f EXCEPT !.at = "loop", !.cmd = cmd, !.read_timeout = read_timeout,
              !.write_term = write_term, !.retries = 0, !.lines = <<>>,
              !.phase = phase, !.ret = RNone, !.exc = NoExc]

\* command() ends: it returns ret or raises exc.
EndCommand(f, ret, exc) ==
    [f EXCEPT !.at = "ended", !.ret = ret, !.exc = exc, !.lines = <<>>]

\* The message the second caller may send.
ThreadRecipient == Sender1
ThreadText == S_HI
ThreadInitiation == S_AT_CMGS_OPEN \o ThreadRecipient \o <<"\"">>

\* What the device may answer to a write: to the text of a message, to
\* AT+CMGS, to any other command.
AnswersTo(f) ==
    IF f.phase = "body" THEN {AnsSent, AnsError}
    ELSE IF f.phase = "initiate" THEN {AnsPrompt, AnsCms515, AnsError, AnsOK}
    ELSE {AnsOK, AnsCms515, AnsError, AnsSilent, WriteFails}

\* with self._modem_lock: of send_sms, were the block entered without the
\* lock.
SmsEnter_unlocked(f) == [f EXCEPT !.at = "sms_try"]

\* with self._modem_lock: of send_sms.
SmsEnter(f) == [f EXCEPT !.at = "sms_try", !.held = @ + 1, !.sms_held = TRUE]

\* A thread calls modem.command("AT") or modem.send_sms(recipient, text).
T_Call(c) ==
    /\ threads.call[c].at = "idle"
    /\ \E op \in {"command", "send_sms"} :
         Step(c,
              IF op = "command"
              THEN StartCommand([threads.call[c] EXCEPT !.op = op],
                                S_AT, None, CR, "none")
              ELSE [threads.call[c] EXCEPT !.op = op, !.at = "sms_lock"],
              device, <<>>)

\* send_sms: with self._modem_lock:
T_SmsLock(c) ==
    /\ threads.call[c].at = "sms_lock"
    /\ CanAcquire(c)
    /\ Step(c, SmsEnter(threads.call[c]), device, <<>>)

\* send_sms: str(text) succeeds, and the message is initiated.
T_SmsInitiate(c) ==
    /\ threads.call[c].at = "sms_try"
    /\ Step(c, StartCommand(threads.call[c], ThreadInitiation, 1, CR, "initiate"),
            device, <<>>)

\* command: while retries < self.max_retries; past the loop, lines is read
\* unbound.
T_Loop(c) ==
    /\ threads.call[c].at = "loop"
    /\ Step(c,
            IF threads.call[c].retries < max_retries
            THEN [threads.call[c] EXCEPT !.at = "lock"]
            ELSE EndCommand(threads.call[c], RNone, PyError("UnboundLocalError")),
            device, <<>>)

\* command: with self._modem_lock:
T_Lock(c) ==
    /\ threads.call[c].at = "lock"
    /\ CanAcquire(c)
    /\ Step(c, [threads.call[c] EXCEPT !.at = "write", !.held = @ + 1], device, <<>>)

\* The command has been written, or writing it raised and the with block
\* is left.
T_Written(c, f, w) ==
    Step(c,
         IF Raised(w) THEN [f EXCEPT !.at = "except", !.held = @ - 1, !.exc = w.exc]
         ELSE [f EXCEPT !.at = "wait"],
         w.m.dev,
         <<Trace(c, "write", f.cmd \o f.write_term,
                 IF Raised(w) THEN "failed" ELSE "command")>>)

\* command: self._write(cmd + write_term)
T_Write(c) ==
    /\ threads.call[c].at = "write"
    /\ \E ans \in AnswersTo(threads.call[c]) :
         T_Written(c, threads.call[c],
                   _write(Modem(<<ans>>),
                          threads.call[c].cmd \o threads.call[c].write_term))

\* The response has been read up to its terminal line, or reading raised;
\* the with block is left.
T_Waited(c, f, r) ==
    Step(c,
         IF Raised(r) THEN [f EXCEPT !.at = "except", !.held = @ - 1, !.exc = r.exc]
         ELSE [f EXCEPT !.at = "after", !.held = @ - 1, !.lines = r.ret.lines],
         r.m.dev,
         <<Trace(c, "read", IF Raised(r) THEN r.exc.type ELSE "lines", "command")>>)

\* command: lines = self._wait(read_term=..., read_timeout=...)
T_Wait(c) ==
    /\ threads.call[c].at = "wait"
    /\ T_Waited(c, threads.call[c],
                _wait(Modem(<<>>), <<>>, threads.call[c].read_timeout))

\* The handler's verdict on an error that is not "busy".
T_Handled(f, h) == EndCommand(f, h.ret, h.exc)

\* command: except errors.GsmError, err; any other exception propagates.
T_Except(c) ==
    /\ threads.call[c].at = "except"
    /\ Step(c,
            IF ~IsGsmError(threads.call[c].exc)
            THEN EndCommand(threads.call[c], RNone, threads.call[c].exc)
            ELSE IF is_busy(threads.call[c].exc)
            THEN [threads.call[c] EXCEPT !.at = "sleep"]
            ELSE T_Handled(threads.call[c],
                           on_error(Modem(<<>>), threads.call[c].exc, TRUE)),
            device, <<>>)

\* Retried, were the attempt not counted.
Retried_uncounted(f) == [f EXCEPT !.at = "loop", !.exc = NoExc]

\* retries += 1; continue
Retried(f) == [f EXCEPT !.at = "loop", !.retries = @ + 1, !.exc = NoExc]

\* command: time.sleep(self.retry_delay); retries += 1; continue
T_Sleep(c) ==
    /\ threads.call[c].at = "sleep"
    /\ Step(c, Retried(threads.call[c]), device,
            <<Trace(c, "sleep", "retry_delay", "command")>>)

\* The response has been cleaned of the echo, of blank lines and of
\* notifications.
T_Finished(c, f, r) ==
    Step(c, [f EXCEPT !.at = "delay", !.lines = <<>>, !.ret = r.ret, !.exc = r.exc],
         device, <<>>)

\* command: what follows the loop, up to the rest.
T_After(c) ==
    /\ threads.call[c].at = "after"
    /\ T_Finished(c, threads.call[c],
                  command_finish(Modem(<<>>), threads.call[c].cmd,
                                 threads.call[c].lines))

\* command: time.sleep(self.cmd_delay); return lines
T_Delay(c) ==
    /\ threads.call[c].at = "delay"
    /\ Step(c, [threads.call[c] EXCEPT !.at = "ended"], device,
            <<Trace(c, "sleep", "cmd_delay", "command")>>)

\* What send_sms does when one of its commands has ended: at the prompt
\* the text is sent, ended by ctrl+z; the text accepted, True is
\* returned; an exception has the message aborted; a response to AT+CMGS
\* falls through.
SmsNext(f) ==
    IF f.phase = "initiate" /\ f.exc.type = "GsmReadTimeoutError"
       /\ f.exc.pending_data # <<>> /\ f.exc.pending_data[1] = ">"
    THEN StartCommand(f, ThreadText, None, <<Chr26>>, "body")
    ELSE IF f.exc # NoExc THEN [f EXCEPT !.at = "sms_abort"]
    ELSE [f EXCEPT !.at = "sms_exit",
                   !.ret = IF f.phase = "body" THEN RTrue ELSE RNone]

\* command() has ended: its caller goes on.
T_Ended(c) ==
    /\ threads.call[c].at = "ended"
    /\ Step(c,
            IF threads.call[c].op = "command"
            THEN [threads.call[c] EXCEPT !.at = "done"]
            ELSE SmsNext(threads.call[c]),
            device,
            IF threads.call[c].op = "command"
            THEN <<Trace(c, "return", threads.call[c].exc.type, "command")>>
            ELSE <<>>)

\* The escape has been written, or writing it raised.
T_Aborted(c, f, w) ==
    Step(c, [f EXCEPT !.at = "sms_exit", !.ret = RNone, !.exc = w.exc], w.m.dev,
         <<Trace(c, "write", <<Chr27>>, IF Raised(w) THEN "failed" ELSE "send_sms")>>)

\* send_sms: except Exception: self._write(chr(27)); return None
T_SmsAbort(c) ==
    /\ threads.call[c].at = "sms_abort"
    /\ \E ans \in AbortAnswers :
         T_Aborted(c, threads.call[c], _write(Modem(<<ans>>), <<Chr27>>))

\* send_sms: the with block is left (old_mode is None: nothing to put
\* back), and the call returns.
T_SmsExit(c) ==
    /\ threads.call[c].at = "sms_exit"
    /\ Step(c,
            [threads.call[c] EXCEPT !.at = "done", !.sms_held = FALSE,
                !.held = IF threads.call[c].sms_held THEN @ - 1 ELSE @],
            device, <<Trace(c, "return", threads.call[c].exc.type, "send_sms")>>)

\* The next statement of caller c.
T_Next(c) ==
    \/ T_Call(c)
    \/ T_SmsLock(c)
    \/ T_SmsInitiate(c)
    \/ T_Loop(c)
    \/ T_Lock(c)
    \/ T_Write(c)
    \/ T_Wait(c)
    \/ T_Except(c)
    \/ T_Sleep(c)
    \/ T_After(c)
    \/ T_Delay(c)
    \/ T_Ended(c)
    \/ T_SmsAbort(c)
    \/ T_SmsExit(c)

NextThreads == \E c \in Callers : T_Next(c)

SpecThreads == Init /\ [][NextThreads]_vars

\* Caller c has a statement to execute and is not waiting for the lock:
\* T_Next(c) is enabled.
Runnable(c) ==
    /\ threads.call[c].at # "done"
    /\ threads.call[c].at \in {"lock", "sms_lock"} => CanAcquire(c)

\* Every thread is scheduled: a thread that can go on does, sooner or
\* later.  This is weak fairness of T_Next(c), its enabling condition
\* written out.
FairThreads ==
    SpecThreads /\ \A c \in Callers : (<>[]Runnable(c) => []<><<T_Next(c)>>_vars)

---------------------------------------------------------------------------
(* Notifications whose text line is blank: the header line is followed by  *)
(* an empty line, or by spaces only.                                       *)

\* The texts of the notifications: nothing, a space, a text.
BodyTexts == {<<>>, <<" ">>, S_HI}

BodyItems ==
    {NoteItem(Sender1, b) : b \in BodyTexts} \cup {DataItem(S_CSQ_LINE)}

\* One item or two, a notification among them.
BodySeqs ==
    {items \in {<<a>> : a \in BodyItems} \cup {<<a, b>> : a, b \in BodyItems} :
        NotesOf(items) # <<>>}

\* The items arrive in the response to a command, and the device accepts
\* or rejects the acknowledgements.
DeliverBody ==
    /\ CanCall
    /\ \E items \in BodySeqs, ack \in {AnsOK, AnsError} :
         Done("deliver_body", [items |-> items, ack |-> ack],
              command(Modem(<<Answer(ItemsOut(items) \o Out(S_OK))>>
                            \o AckScript(ack)),
                      S_AT, <<>>, None, CR, TRUE))

NextBody == DeliverBody

SpecBody == Init /\ [][NextBody]_vars

---------------------------------------------------------------------------
(* The order of arrival: two notifications, the second in the same         *)
(* response as the first or in the response to the acknowledgement of the  *)
(* first.                                                                  *)

FirstHi == Fragment(FALSE, S_HI)

\* Whole messages and parts that are not the last.
OrderNotes ==
    {Note(Sender1, S_HI), Note(Sender1, S_TEST_MESSAGE), Note(Sender2, S_HI),
     Note(Sender1, First00), Note(Sender1, FirstHi)}

\* What the device answers: both notifications to the command, or the
\* second to the AT+CNMA that acknowledges the first.
OrderScript(first, second, nested) ==
    IF nested
    THEN <<AnsNotes(<<first>>), AnsNotes(<<second>>), AnsOK>>
    ELSE <<AnsNotes(<<first, second>>), AnsOK, AnsOK>>

\* Two notifications arrive while a command is issued.
DeliverInOrder ==
    /\ CanCall
    /\ \E first \in OrderNotes, second \in OrderNotes, nested \in BOOLEAN :
         Done("deliver_in_order",
              [first |-> first, second |-> second, nested |-> nested],
              command(Modem(OrderScript(first, second, nested)), S_AT, <<>>,
                      None, CR, TRUE))

NextOrder == DeliverInOrder

SpecOrder == Init /\ [][NextOrder]_vars

---------------------------------------------------------------------------
(* Concurrent readers of the queue.  Messages arrive with the responses    *)
(* to commands, and two threads each call next_message(ping=False,         *)
(* fetch=False), taken a statement at a time: the test of the queue, and   *)
(* the pop.                                                                *)

\* Caller c goes on with frame f, the queue left as queue.
QueueStep(c, f, queue) ==
    /\ threads' = [threads EXCEPT !.call[c] = f]
    /\ incoming_queue' = queue
    /\ UNCHANGED <<device, multipart, max_retries, modem_lock, last>>

\* A message arrives in the response to a command, and is acknowledged.
Arrive ==
    /\ CanCall
    /\ \E sender \in {Sender1, Sender2} :
         Done("arrive", [sender |-> sender],
              command(Modem(<<AnsNotes(<<Note(sender, S_HI)>>), AnsOK>>), S_AT,
                      <<>>, None, CR, TRUE))

\* A thread calls modem.next_message(ping=False, fetch=False).
N_Call(c) ==
    /\ threads.call[c].at = "idle"
    /\ QueueStep(c, [threads.call[c] EXCEPT !.op = "next_message", !.at = "test"],
                 incoming_queue)

\* next_message: if not self.incoming_queue: return None
N_Test(c) ==
    /\ threads.call[c].at = "test"
    /\ QueueStep(c,
                 IF incoming_queue = <<>>
                 THEN [threads.call[c] EXCEPT !.at = "done", !.ret = RNone]
                 ELSE [threads.call[c] EXCEPT !.at = "pop"],
                 incoming_queue)

\* next_message: return self.incoming_queue.pop(0); pop from an empty list
\* raises IndexError.
N_Pop(c) ==
    /\ threads.call[c].at = "pop"
    /\ QueueStep(c,
                 IF incoming_queue = <<>>
                 THEN [threads.call[c] EXCEPT !.at = "done",
                                              !.exc = PyError("IndexError")]
                 ELSE [threads.call[c] EXCEPT !.at = "done",
                                              !.ret = RMsg(Head(incoming_queue))],
                 IF incoming_queue = <<>> THEN <<>> ELSE Tail(incoming_queue))

NextPop == Arrive \/ \E c \in Callers : N_Call(c) \/ N_Test(c) \/ N_Pop(c)

SpecPop == Init /\ [][NextPop]_vars

---------------------------------------------------------------------------
(* Reading with a timeout of its own.  A line is read from what the        *)
(* device has sent, or a command is issued, with or without a read         *)
(* timeout that differs from the device's; the line arrives whole, stops   *)
(* short, or the port fails.                                               *)

\* The read timeouts asked for: none, or two seconds where the device has
\* one.
ReadTimeouts == {None, 2}

\* What the device has sent when a line is read: a line, the start of
\* one, nothing, and the start of a line or a line before the port fails.
Streams ==
    {Out(S_OK), CRLF \o S_OK, <<>>, <<PortFails>>, CRLF \o S_OK \o <<PortFails>>,
     CRLF \o <<PortFails>>}

\* modem._read(read_timeout=read_timeout), the stream waiting.
ReadLine ==
    /\ CanCall
    /\ \E stream \in Streams, read_timeout \in ReadTimeouts :
         Done("_read", [stream |-> stream, read_timeout |-> read_timeout],
              _read([Modem(<<>>) EXCEPT !.dev.buf_read = @ \o stream], <<>>,
                    read_timeout))

\* modem.command("AT", read_timeout=read_timeout), the device answering
\* with the stream.
CommandTimed ==
    /\ CanCall
    /\ \E stream \in Streams, read_timeout \in ReadTimeouts :
         Done("command_timed", [stream |-> stream, read_timeout |-> read_timeout],
              command(Modem(<<Answer(stream)>>), S_AT, <<>>, read_timeout, CR,
                      TRUE))

NextRead == ReadLine \/ CommandTimed

SpecRead == Init /\ [][NextRead]_vars

---------------------------------------------------------------------------
(* The response collector on its own: lines wait on the transport, and     *)
(* _wait is called once.                                                   *)

MaxLines == 3

S_OKAY == <<"O", "K", "A", "Y">>
S_CMS_ERROR_X == <<"+", "C", "M", "S", " ", "E", "R", "R", "O", "R", ":", " ", "x">>

\* The lines a device sends: data, the terminators (one with spaces
\* around it), lines that look like terminators and are none, and a
\* blank line.
WaitLines ==
    {S_CSQ_LINE, S_OK, <<" ">> \o S_OK \o <<" ">>, S_ERROR, S_CMS_ERROR_500,
     S_CME_ERROR_515, S_COMMAND_NOT_SUPPORT, S_OKAY, S_CMS_ERROR_X, <<>>}

\* Up to MaxLines lines.
RECURSIVE LineSeqs(_)
LineSeqs(n) ==
    IF n = 0 THEN {<<>>}
    ELSE LineSeqs(n - 1)
         \cup {Append(ls, l) : ls \in {x \in LineSeqs(n - 1) : Len(x) = n - 1},
                               l \in WaitLines}

\* The lines as they are on the transport, each ended by CR LF.
RECURSIVE LinesOut(_)
LinesOut(lines) ==
    IF lines = <<>> THEN <<>> ELSE lines[1] \o CRLF \o LinesOut(Tail(lines))

\* modem._wait(), the lines waiting.
Wait ==
    /\ last.n = 0
    /\ \E lines \in LineSeqs(MaxLines) :
         Done("_wait", [lines |-> lines],
              _wait([Modem(<<>>) EXCEPT !.dev.buf_read = @ \o LinesOut(lines)],
                    <<>>, None))

NextWait == Wait

SpecWait == Init /\ [][NextWait]_vars

---------------------------------------------------------------------------
(* The guess at the encoding of a text, on its own.                        *)

S_41 == <<"4", "1">>
S_0041 == <<"0", "0", "4", "1">>
S_004G == <<"0", "0", "4", "G">>
S_004a == <<"0", "0", "4", "a">>
S_D800 == <<"D", "8", "0", "0">>
S_DC00 == <<"D", "C", "0", "0">>
S_FEFF0041 == <<"F", "E", "F", "F", "0", "0", "4", "1">>
S_FFFE4100 == <<"F", "F", "F", "E", "4", "1", "0", "0">>
S_FEFFD800 == <<"F", "E", "F", "F", "D", "8", "0", "0">>
S_D83DDE00 == <<"D", "8", "3", "D", "D", "E", "0", "0">>

\* The texts that arrive: plain, empty, hex digits of a length that is not
\* a multiple of four, with a letter that is no hex digit, with a
\* lowercase digit, encoded characters with and without a byte order
\* mark, and surrogates alone and paired.
GuessTexts ==
    {S_HI, <<>>, S_41, S_0041, S_004G, S_004a, S_D800, S_DC00, S_FEFF0041,
     S_FFFE4100, S_FEFFD800, S_D83DDE00}

GuessStamp == Scts(datetime(2023, 6, 1, 10, 0, 0))

\* return msg, of _add_incoming: the message just appended.
Added(m) == Ret(m, m.incoming_queue[Len(m.incoming_queue)])

\* modem._add_incoming(timestamp, sender, text)
AddIncoming ==
    /\ CanCall
    /\ \E text \in GuessTexts :
         Done("_add_incoming", [text |-> text],
              Added(_add_incoming(Modem(<<>>), GuessStamp, Sender1, text)))

NextGuess == AddIncoming

SpecGuess == Init /\ [][NextGuess]_vars

---------------------------------------------------------------------------
(* Two modem objects, each with a transport of its own and a thread that   *)
(* calls command("AT") on it.  Here device holds the transport of each     *)
(* modem, and threads.call[o] the call on modem o.                         *)

\* The lock that self._modem_lock names in a method of modem o: the
\* attribute is made once, in the body of the class, and no object is
\* given one of its own.
LockOf(o) == 0

\* Whether the thread on modem o may enter  with self._modem_lock:  no
\* other thread holds that lock.
CanEnter(o) ==
    \A p \in Callers \ {o} : LockOf(p) = LockOf(o) => threads.call[p].held = 0

\* Modem o, its device about to answer with the script.
ModemOf(o, script) ==
    [dev |-> [device[o] EXCEPT !.script = script],
     multipart |-> multipart, incoming_queue |-> incoming_queue,
     lock |-> threads.call[o].held, depth |-> 0, log |-> <<>>]

InitModems ==
    /\ device = [o \in Callers |-> NewDevice("script", 1, <<>>)]
    /\ multipart = <<>>
    /\ incoming_queue = <<>>
    /\ max_retries \in 0..MaxRetries
    /\ modem_lock = 0
    /\ last = NoCall
    /\ threads = NoThreads

\* The call on modem o goes on with frame f, the modem's device left as
\* dev.
M_Step(o, f, dev) ==
    /\ threads' = [threads EXCEPT !.call[o] = f]
    /\ device' = [device EXCEPT ![o] = [dev EXCEPT !.script = <<>>]]
    /\ modem_lock' = Held([threads.call EXCEPT ![o] = f])
    /\ UNCHANGED <<multipart, incoming_queue, max_retries, last>>

\* What a device may answer to AT.
ModemAnswers == {AnsOK, AnsCms515, AnsError, AnsSilent}

\* A thread calls command("AT") on modem o.
M_Call(o) ==
    /\ threads.call[o].at = "idle"
    /\ M_Step(o, StartCommand([threads.call[o] EXCEPT !.op = "command"],
                              S_AT, None, CR, "none"),
              device[o])

\* command: while retries < self.max_retries
M_Loop(o) ==
    /\ threads.call[o].at = "loop"
    /\ M_Step(o,
              IF threads.call[o].retries < max_retries
              THEN [threads.call[o] EXCEPT !.at = "lock"]
              ELSE EndCommand(threads.call[o], RNone, PyError("UnboundLocalError")),
              device[o])

\* command: with self._modem_lock:
M_Lock(o) ==
    /\ threads.call[o].at = "lock"
    /\ CanEnter(o)
    /\ M_Step(o, [threads.call[o] EXCEPT !.at = "write", !.held = @ + 1], device[o])

\* The command has been written, or writing it raised.
M_Written(o, f, w) ==
    M_Step(o,
           IF Raised(w) THEN [f EXCEPT !.at = "except", !.held = @ - 1, !.exc = w.exc]
           ELSE [f EXCEPT !.at = "wait"],
           w.m.dev)

\* command: self._write(cmd + write_term)
M_Write(o) ==
    /\ threads.call[o].at = "write"
    /\ \E ans \in ModemAnswers :
         M_Written(o, threads.call[o],
                   _write(ModemOf(o, <<ans>>),
                          threads.call[o].cmd \o threads.call[o].write_term))

\* The response has been read, or reading raised; the with block is
\* left.
M_Waited(o, f, r) ==
    M_Step(o,
           IF Raised(r) THEN [f EXCEPT !.at = "except", !.held = @ - 1, !.exc = r.exc]
           ELSE [f EXCEPT !.at = "after", !.held = @ - 1, !.lines = r.ret.lines],
           r.m.dev)

\* command: lines = self._wait(read_term=..., read_timeout=...)
M_Wait(o) ==
    /\ threads.call[o].at = "wait"
    /\ M_Waited(o, threads.call[o],
                _wait(ModemOf(o, <<>>), <<>>, threads.call[o].read_timeout))

\* command: except errors.GsmError, err
M_Except(o) ==
    /\ threads.call[o].at = "except"
    /\ M_Step(o,
              IF ~IsGsmError(threads.call[o].exc)
              THEN EndCommand(threads.call[o], RNone, threads.call[o].exc)
              ELSE IF is_busy(threads.call[o].exc)
              THEN [threads.call[o] EXCEPT !.at = "sleep"]
              ELSE T_Handled(threads.call[o],
                             on_error(ModemOf(o, <<>>), threads.call[o].exc, TRUE)),
              device[o])

\* command: time.sleep(self.retry_delay); retries += 1; continue
M_Sleep(o) ==
    /\ threads.call[o].at = "sleep"
    /\ M_Step(o, Retried(threads.call[o]), device[o])

\* The response has been cleaned.
M_Finished(o, f, r) ==
    M_Step(o, [f EXCEPT !.at = "delay", !.lines = <<>>, !.ret = r.ret, !.exc = r.exc],
           device[o])

\* command: what follows the loop, up to the rest.
M_After(o) ==
    /\ threads.call[o].at = "after"
    /\ M_Finished(o, threads.call[o],
                  command_finish(ModemOf(o, <<>>), threads.call[o].cmd,
                                 threads.call[o].lines))

\* command: time.sleep(self.cmd_delay); return lines
M_Delay(o) ==
    /\ threads.call[o].at = "delay"
    /\ M_Step(o, [threads.call[o] EXCEPT !.at = "ended"], device[o])

\* command() has returned or raised, and the thread may call again.
M_Ended(o) ==
    /\ threads.call[o].at = "ended"
    /\ M_Step(o, [threads.call[o] EXCEPT !.at = "idle"], device[o])

\* The next statement of the thread on modem o.
M_Next(o) ==
    \/ M_Call(o)
    \/ M_Loop(o)
    \/ M_Lock(o)
    \/ M_Write(o)
    \/ M_Wait(o)
    \/ M_Except(o)
    \/ M_Sleep(o)
    \/ M_After(o)
    \/ M_Delay(o)
    \/ M_Ended(o)

NextModems == \E o \in Callers : M_Next(o)

SpecModems == InitModems /\ [][NextModems]_vars

---------------------------------------------------------------------------
(* Properties.  They read the record of the last call: its arguments, its  *)
(* outcome and its events in order.  Events at depth 1 belong to the       *)
(* command the caller issued; deeper ones to the acknowledgements that     *)
(* its parse issued.                                                       *)

\* The places in the last call's log of the events ev at depth d.
EventsAt(ev, d) ==
    {i \in DOMAIN last.log : last.log[i].ev = ev /\ last.log[i].depth = d}

\* The attempts of the command issued, and the times it was written.
Attempts == EventsAt("attempt", 1)
Writes == EventsAt("write", 1)

\* The outcome of the attempt noted at place i.
AttemptExc(i) == last.log[i].data.exc
FirstAttempt == CHOOSE i \in Attempts : \A j \in Attempts : i <= j
LastAttempt == CHOOSE i \in Attempts : \A j \in Attempts : i >= j

\* The line was clear when the last call began.
LineClear == last.pre_device.buf_read = <<>>

\* The device answered, and would have answered, each of the first n
\* attempts of the last call with +CMS ERROR: 515.
BusyFor(n) ==
    /\ LineClear
    /\ Len(last.args.script) >= n
    /\ \A j \in 1..n : last.args.script[j] = AnsCms515

\* C1: a command that the device answers with coded error 515 at every
\* attempt is written at most max_retries + 1 times and then fails with a
\* modem error whose code is 515.
C1_RetryBoundThenBusyError ==
    (last.op = "command" /\ BusyFor(max_retries + 1)) =>
        /\ Cardinality(Writes) <= max_retries + 1
        /\ last.exc.type = "GsmModemError"
        /\ last.exc.code = 515

\* A line that ends a response: OK, ERROR or a coded error.
IsTerminal(line) ==
    line = S_OK \/ line = S_ERROR \/ MatchCodedError(line) # <<>>

CarriedNotification ==
    \E k \in DOMAIN last.log[LastAttempt].data.lines :
        Slice(last.log[LastAttempt].data.lines[k], 0, 5) = S_CMT

C8_OneRetryThenSuccess ==
    /\ (/\ last.op = "command" /\ LineClear /\ max_retries >= 1
        /\ last.args.script \in {<<AnsCms515, AnsOK>>, <<AnsCms515, AnsData>>}) =>
            /\ Cardinality(Writes) = 2
            /\ last.exc = NoExc
            /\ last.ret.kind = "lines"
    /\ (/\ last.op = "boot" /\ LineClear /\ max_retries >= 1
        /\ last.args.script \in {Times(4, <<AnsCms515, AnsOK>>),
                                 Times(5, <<AnsCms515, AnsOK>>)}) =>
            /\ last.exc = NoExc
            /\ last.ret.kind = "self"

\* C9: a command whose first attempt succeeds, or fails with an error
\* whose code is not 515, is written once.
C9_OnlyBusyRetried ==
    (last.op = "command" /\ Attempts # {} /\ AttemptExc(FirstAttempt).code # 515) =>
        Cardinality(Writes) = 1

\* A command was rejected with +CMS ERROR: 500 and written once.
C9_Witness ==
    /\ last.op = "command" /\ Attempts # {}
    /\ AttemptExc(FirstAttempt) = GsmModemError("CMS", 500)
    /\ Cardinality(Writes) = 1

\* The last attempt of the command was rejected with a modem error other
\* than 515.
Rejected ==
    /\ last.op = "command" /\ Attempts # {}
    /\ AttemptExc(LastAttempt).type = "GsmModemError"
    /\ AttemptExc(LastAttempt).code # 515

\* C10: a command rejected with a modem error other than 515 returns None
\* with raise_errors off, leaving the queue and the pending parts as they
\* were, and raises that error with raise_errors on.
C10_ErrorPolicy ==
    Rejected =>
        IF last.args.raise_errors
        THEN last.exc = AttemptExc(LastAttempt)
        ELSE /\ last.exc = NoExc
             /\ last.ret = RNone
             /\ incoming_queue = last.pre_queue
             /\ multipart = last.pre_multipart

\* With a message waiting in the queue, a command was rejected with
\* raise_errors off.
C10_Witness ==
    /\ Rejected /\ ~last.args.raise_errors
    /\ last.pre_queue # <<>>
    /\ last.ret = RNone


\* The places in the last call's log where the string was written.
WrittenAt(str) ==
    {i \in DOMAIN last.log : last.log[i].ev = "write" /\ last.log[i].data = str}

\* The command that initiates the message of the last send_sms.
InitiationOf(args) == S_AT_CMGS_OPEN \o args.recipient \o <<"\"", "\r">>

\* An exception left the try block of the last send_sms, at place i of
\* the log, after the initiation of the message had been written.
FailedAt(i) ==
    /\ last.log[i].ev = "raised"
    /\ \E j \in WrittenAt(InitiationOf(last.args)) : j < i

\* C2: once AT+CMGS has been written, every exception that ends send_sms
\* has the escape (byte 27) written to the device afterwards, and the
\* call does not report the message sent.
C2_AbortAfterFailure ==
    last.op = "send_sms" =>
        \A i \in DOMAIN last.log :
            FailedAt(i) =>
                /\ \E k \in WrittenAt(<<Chr27>>) : k > i
                /\ last.ret # RTrue

\* The text was written at the prompt and rejected, and the escape
\* followed.
C2_Witness ==
    /\ last.op = "send_sms"
    /\ \E i \in DOMAIN last.log :
          /\ FailedAt(i)
          /\ last.log[i].data.type = "GsmModemError"
          /\ \E b \in WrittenAt(S_HI \o <<Chr26>>) : b < i
          /\ \E k \in WrittenAt(<<Chr27>>) : k > i

\* C4: send_sms of an ASCII text through the MockSenderDevice returns True,
\* raises nothing, and has the device record one more sent message, with
\* the recipient and the text given.
C4_MessageRecorded ==
    (last.op = "send_sms" /\ device.kind = "MockSenderDevice") =>
        /\ last.ret = RTrue
        /\ last.exc = NoExc
        /\ device.sent_messages =
              Append(last.pre_device.sent_messages,
                     [recipient |-> last.args.recipient,
                      text |-> last.args.text.chars])

\* body[7:], the payload of a part.
Payload(body) == SliceFrom(body, 7)

\* A part that is not the last, and a last part.
IsPart(body) == Len(body) >= 7 /\ body[1] = Chr130 /\ body[2] = "@"
IsFirstPart(body) == IsPart(body) /\ body[6] # Chr173
IsLastPart(body) == IsPart(body) /\ body[6] = Chr173

\* The last call took in a first part and then a last part from one
\* sender who had no parts pending: both in its response ...
BothPartsArrived ==
    /\ last.op = "deliver" /\ last.exc = NoExc
    /\ Len(last.args.notes) = 2
    /\ last.args.notes[1].sender = last.args.notes[2].sender
    /\ last.args.notes[1].sender \notin DOMAIN last.pre_multipart
    /\ IsFirstPart(last.args.notes[1].body)
    /\ IsLastPart(last.args.notes[2].body)

\* ... or the last part, the first being the one part pending.
LastPartArrived ==
    /\ last.op = "deliver" /\ last.exc = NoExc
    /\ Len(last.args.notes) = 1
    /\ last.args.notes[1].sender \in DOMAIN last.pre_multipart
    /\ Len(last.pre_multipart[last.args.notes[1].sender]) = 1
    /\ IsLastPart(last.args.notes[1].body)

\* payload(F1) concatenated with payload(F2)
Joined ==
    IF Len(last.args.notes) = 2
    THEN Payload(last.args.notes[1].body) \o Payload(last.args.notes[2].body)
    ELSE last.pre_multipart[last.args.notes[1].sender][1]
         \o Payload(last.args.notes[1].body)

\* One message joined the queue, with the text given, and the sender has
\* no parts pending.
Reassembled(text) ==
    /\ Len(incoming_queue) = Len(last.pre_queue) + 1
    /\ SubSeq(incoming_queue, 1, Len(last.pre_queue)) = last.pre_queue
    /\ incoming_queue[Len(incoming_queue)].sender = last.args.notes[1].sender
    /\ incoming_queue[Len(incoming_queue)].text = text
    /\ last.args.notes[1].sender \notin DOMAIN multipart

Appended ==
    [i \in 1..Cardinality(EventsAt("queue_append", 1) \cup EventsAt("queue_append", 0)) |->
        last.log[CHOOSE k \in DOMAIN last.log :
                    /\ last.log[k].ev = "queue_append"
                    /\ Cardinality({j \in 1..k : last.log[j].ev = "queue_append"}) = i].data]

\* C6: with the queue empty and no message arriving or stored,
\* next_message returns None and raises nothing, whatever the device
\* answers.
C6_EmptyQueueReturnsNone ==
    (last.op = "next_message" /\ last.pre_queue = <<>> /\ Appended = <<>>) =>
        /\ last.exc = NoExc
        /\ last.ret = RNone

\* C7: the queue is first in, first out.  Messages join it at the end;
\* next_message returns the one that has waited longest and removes it,
\* or returns None when there is none.
C7_Fifo ==
    /\ last.op \in {"deliver", "next_message"} /\ ~(last.op = "next_message" /\ last.exc = NoExc) =>
          incoming_queue = last.pre_queue \o Appended
    /\ (last.op = "next_message" /\ last.exc = NoExc) =>
          IF last.pre_queue \o Appended = <<>>
          THEN last.ret = RNone /\ incoming_queue = <<>>
          ELSE /\ last.ret = RMsg(Head(last.pre_queue \o Appended))
               /\ incoming_queue = Tail(last.pre_queue \o Appended)

\* next_message returned the older of two different messages and left the
\* newer.
C7_Witness ==
    /\ last.op = "next_message" /\ last.ret.kind = "msg"
    /\ Len(incoming_queue) = 1
    /\ incoming_queue[1] # last.ret.msg
    /\ last.pre_queue \o Appended = <<last.ret.msg, incoming_queue[1]>>


\* The lines of the response that the last attempt of the command read.
RawLines == last.log[LastAttempt].data.lines

IsNonBlank(line) == line # <<>>

\* C11: a first line of the response that equals the command is removed,
\* once: of a response that carried no notification, command() returns
\* the lines that are not blank, less the first line if it equals the
\* command; a second such line stays, and so does a first line that
\* differs.
C11_EchoDroppedOnce ==
    (last.op = "command" /\ last.ret.kind = "lines" /\ ~CarriedNotification) =>
        last.ret.lines =
            SelectSeq(IF RawLines[1] = last.args.cmd THEN Tail(RawLines) ELSE RawLines,
                      IsNonBlank)

\* The device echoed the command twice and command() returned it once,
\* before the OK.
C11_Witness ==
    /\ last.op = "command" /\ last.ret.kind = "lines"
    /\ RawLines = <<last.args.cmd, last.args.cmd, <<>>, S_OK>>
    /\ last.ret.lines = <<last.args.cmd, S_OK>>


\* The device answered the first attempt of the last call with `answer`,
\* the line clear and an attempt allowed.
Answered(answer) ==
    /\ LineClear /\ max_retries >= 1
    /\ last.args.script # <<>> /\ last.args.script[1] = answer

\* The answers that are not one line of output and OK: an error, silence,
\* no line, two lines.
Unexpected ==
    {AnsError, AnsCms500, AnsNotSupported, AnsSilent, AnsOK,
     AnsLines(S_CSQ_LINE, S_CSQ_99)}

\* C12: query() returns None and raises nothing for every unexpected
\* response: a device error, no output line, more than one output line.
C12_QueryReturnsNone ==
    (last.op = "query" /\ \E a \in Unexpected : Answered(a)) =>
        /\ last.exc = NoExc
        /\ last.ret = RNone

\* C13: query_list() returns the empty list when its command fails.
C13_QueryListEmptyOnFailure ==
    (/\ last.op = "query_list"
     /\ \E a \in {AnsError, AnsCms500, AnsNotSupported, AnsSilent} : Answered(a)) =>
        /\ last.exc = NoExc
        /\ last.ret = RLines(<<>>)

\* The cleaned response of the last call: the lines its last attempt read
\* that are not blank, the echo and the terminal OK aside.
Cleaned ==
    SelectSeq(SubSeq(RawLines, IF RawLines[1] = last.args.cmd THEN 2 ELSE 1,
                     Len(RawLines) - 1),
              IsNonBlank)

\* C14: query() yields a line only when the cleaned response is exactly
\* one line, and with a prefix only if that one line starts with it (the
\* line is returned without the prefix); in every other case, a response
\* of several lines of which one carries the prefix included, it yields
\* None.
C14_QuerySingleLine ==
    (last.op = "query" /\ last.exc = NoExc /\ Attempts # {} /\ RawLines # <<>>) =>
        IF /\ Len(Cleaned) = 1
           /\ (last.args.prefix = NoPrefix \/ StartsWith(Cleaned[1], last.args.prefix))
        THEN last.ret = RStr(IF last.args.prefix = NoPrefix THEN Cleaned[1]
                             ELSE strip(SliceFrom(Cleaned[1], Len(last.args.prefix))))
        ELSE last.ret = RNone

\* What signal_strength() is to make of a line: the strength, the
\* "unknown" value False for 99, the "error" value None for a line that
\* cannot be parsed.
CsqCases ==
    {<<S_CSQ_LINE, RInt(20)>>, <<S_CSQ_0, RInt(0)>>, <<S_CSQ_99, RFalse>>,
     <<S_CSQ_BARE, RNone>>, <<S_JUNK_LINE, RNone>>}

Signals ==
    [i \in 1..Cardinality(EventsAt("signal", 0)) |->
        last.log[CHOOSE k \in EventsAt("signal", 0) :
                    Cardinality({j \in EventsAt("signal", 0) : j <= k}) = i].data]

\* A known signal other than none: an integer from 1 to 98.
IsKnownSignal(v) == v.kind = "int" /\ v.int >= 1 /\ v.int <= 98

\* C16: wait_for_network() returns only a known, non-zero signal
\* strength, the one signal_strength() reported last; every report before
\* it was 0, unknown or unparseable, and a second's rest followed each.
C16_WaitsForKnownSignal ==
    (last.op = "wait_for_network" /\ last.exc = NoExc) =>
        /\ Signals # <<>>
        /\ IsKnownSignal(last.ret)
        /\ Signals[Len(Signals)] = last.ret
        /\ \A i \in 1..(Len(Signals) - 1) : ~IsKnownSignal(Signals[i])
        /\ Cardinality(EventsAt("sleep", 0)) = Len(Signals) - 1

\* wait_for_network() returned 20 after reports of 0 and of unknown.
C16_Witness ==
    /\ last.op = "wait_for_network"
    /\ last.ret = RInt(20)
    /\ Signals = <<RInt(0), RFalse, RInt(20)>>

\* The commands of boot(), in the order of the source.
BootCommands == <<S_AT_CFUN_1, S_ATE0, S_AT_CMEE_1, S_AT_WIND_0, S_AT_CMGF_1>>

\* The place of a written string among the commands of boot(), 0 for a
\* string that is none of them.
Rank(str) ==
    IF \E k \in DOMAIN BootCommands : str = BootCommands[k] \o CR
    THEN CHOOSE k \in DOMAIN BootCommands : str = BootCommands[k] \o CR
    ELSE 0

\* What the last call wrote as commands of its own, in order.
BootWritten == SelectSeq(last.log, LAMBDA e : e.ev = "write" /\ e.depth = 1)

\* The device accepts or rejects each command of the last call: every
\* answer is OK or ERROR.
AcceptsOrRejects ==
    /\ LineClear
    /\ max_retries >= 1
    /\ last.args.script # <<>>
    /\ \A k \in DOMAIN last.args.script : last.args.script[k] \in {AnsOK, AnsError}

\* The text-mode command of the last boot was written and failed.
TextModeFailed ==
    /\ WrittenAt(S_AT_CMGF_1 \o CR) # {}
    /\ AttemptExc(LastAttempt) # NoExc

\* C17: boot() writes its commands in a fixed order, AT+CFUN=1 first and
\* only when a reboot was asked for, then ATE0, then AT+CMEE=1, and
\* AT+CMGF=1 last; ATE0 and AT+CMEE=1 are written on every boot, also
\* when the device rejects other commands.
C17_BootOrder ==
    (last.op = "boot" /\ AcceptsOrRejects) =>
        /\ \A i, j \in DOMAIN BootWritten :
              i < j => /\ Rank(BootWritten[i].data) > 0
                       /\ Rank(BootWritten[i].data) <= Rank(BootWritten[j].data)
        /\ WrittenAt(S_AT_CFUN_1 \o CR) # {} => last.args.reboot
        /\ last.args.reboot =>
              BootWritten # <<>> /\ BootWritten[1].data = S_AT_CFUN_1 \o CR
        /\ WrittenAt(S_ATE0 \o CR) # {}
        /\ WrittenAt(S_AT_CMEE_1 \o CR) # {}

\* C18: boot() fails if and only if AT+CMGF=1 fails; the rejection of
\* any other command of boot() is swallowed, and the rejection of
\* AT+CMGF=1 makes boot() fail with a modem error.
C18_BootFailsIffTextModeFails ==
    (last.op = "boot" /\ AcceptsOrRejects) =>
        /\ Raised(last) <=> TextModeFailed
        /\ TextModeFailed => last.exc.type = "GsmModemError"

\* C19: reboot() on a connected modem (one that allows a command an
\* attempt, max_retries >= 1) closes and drops the device it has and
\* opens a new one before any command of boot() is written, and boot()
\* then writes AT+CFUN=1.
C19_RebootReconnects ==
    (last.op = "reboot" /\ last.pre_device.kind # "None" /\ max_retries >= 1) =>
        /\ \E c \in EventsAt("close", 0), o \in EventsAt("open", 0) :
              c < o /\ \A w \in Writes : o < w
        /\ WrittenAt(S_AT_CFUN_1 \o CR) # {}

\* A time moved by a number of minutes, later for a positive number.
Adjusted(dt, minutes) == MinusMinutes(dt, 0 - minutes)

\* The message that the last call put on the queue last.
Enqueued == incoming_queue[Len(incoming_queue)]

\* C20: a timestamp YY/MM/DD,HH:MM:SS followed by "-" and digits is
\* taken as that time adjusted by -(digits x 15) minutes, and one
\* without a zone as that time; a timestamp that cannot be parsed gives
\* no time, and its message joins the queue all the same.
C20_TimestampOffset ==
    (last.op = "deliver_stamped" /\ LineClear /\ max_retries >= 1) =>
        /\ Len(incoming_queue) = Len(last.pre_queue) + 1
        /\ Enqueued.sent =
              IF last.args.stamp.time = NoneTime THEN NoneTime
              ELSE IF last.args.stamp.digits = <<>> THEN last.args.stamp.time
              ELSE Adjusted(last.args.stamp.time,
                            0 - int(last.args.stamp.digits) * 15)

\* The places in the last call's log where anything was written.
AllWrites == {i \in DOMAIN last.log : last.log[i].ev = "write"}

\* C22: nothing is written before the first boot or command: a modem
\* made around a given device has written nothing to it, and connect()
\* on a modem that has its device writes nothing and leaves the device
\* as it was.
C22_NothingWrittenBeforeCommand ==
    /\ (last.n = 0 /\ device.kind # "None") =>
          device.buf_write = <<>> /\ device.buf_read = <<>>
    /\ (last.op = "connect" /\ last.pre_device.kind # "None") =>
          AllWrites = {} /\ device = last.pre_device

\* connect(reconnect=True) has returned on a modem with its device.
C22_Witness ==
    /\ last.op = "connect"
    /\ last.args.reconnect
    /\ last.pre_device.kind = "script"
    /\ max_retries >= 1
    /\ ~Raised(last)

\* The places in the last call's log of the events ev, at any depth.
EventsOf(ev) == {i \in DOMAIN last.log : last.log[i].ev = ev}

\* How many messages or parts the last call handed to the assembler: a
\* part is filed, or a message queued; the last part is filed, the parts
\* taken out and their whole queued.
Handed ==
    Cardinality(EventsOf("queue_append")) + Cardinality(EventsOf("multipart_append"))
    - Cardinality(EventsOf("multipart_del"))

\* The items of the last response that are of the kind.
ItemsOfKind(kind) == SelectSeq(last.args.items, LAMBDA a : a.kind = kind)

\* The last call was a command whose response carried the items, on a
\* clear line, with an attempt allowed.
Delivered ==
    /\ last.op = "deliver_among"
    /\ LineClear
    /\ max_retries >= 1

\* No notification of the last response has a text that looks like the
\* end of a response.
PlainTexts ==
    \A k \in DOMAIN last.args.items :
        last.args.items[k].kind = "note" => last.args.items[k].body \notin {S_OK, S_ERROR}

\* C23: a +CMT line that is no notification is skipped: command() returns
\* normally, nothing is handed to the assembler for that line, and the
\* notifications of the same response are handed on all the same.
C23_BadNotificationSkipped ==
    (Delivered /\ PlainTexts /\ last.args.ack = AnsOK /\ ItemsOfKind("bad") # <<>>) =>
        /\ ~Raised(last)
        /\ Handed = Len(ItemsOfKind("note"))

\* The lines that the device put on the line for the items.
RECURSIVE ItemLines(_)
ItemLines(items) ==
    IF items = <<>> THEN <<>>
    ELSE (IF items[1].kind = "note"
          THEN <<CmtHeader(items[1].sender), items[1].body>>
          ELSE <<items[1].text>>)
         \o ItemLines(Tail(items))

\* The lines collected by the first attempt of the command issued,
\* without the blank ones.
Collected == SelectSeq(last.log[FirstAttempt].data.lines, IsNonBlank)

\* C24: the response collected for a command ends at the command's own
\* terminal line: a notification whose text is OK or ERROR does not end
\* it, and nothing of the response stays on the line for the next
\* command to read.
C24_TextIsNoTerminator ==
    (Delivered /\ ~PlainTexts /\ last.args.ack = AnsOK /\ ItemsOfKind("bad") = <<>>) =>
        /\ ~Raised(last)
        /\ Collected = ItemLines(last.args.items) \o <<S_OK>>
        /\ device.buf_read = <<>>

\* What changes the state that callers share.
Mutations ==
    {"queue_append", "queue_pop", "multipart_new", "multipart_append", "multipart_del"}

\* C25: the incoming queue and the pending parts change only while the
\* caller holds the modem lock, and AT+CNMA is written while the lock
\* taken for the command whose response is being parsed is still held
\* (so the lock is held twice over when the acknowledgement is written).
C25_MutationsUnderLock ==
    \A i \in DOMAIN last.log :
        /\ last.log[i].ev \in Mutations => last.log[i].lock >= 1
        /\ (last.log[i].ev = "write" /\ last.log[i].data = S_AT_CNMA \o CR) =>
              last.log[i].lock >= 2

\* The places in the last call's log where a text ended by ctrl+z was
\* written.
BodyWrites ==
    {i \in AllWrites : last.log[i].data # <<>>
                        /\ last.log[i].data[Len(last.log[i].data)] = Chr26}

\* The attempt that the write at place j of the log began.
AttemptOf(j) ==
    CHOOSE a \in EventsOf("attempt") :
        a > j /\ \A b \in EventsOf("attempt") : b > j => a <= b

\* The exchange begun by the write at place j ended in a read timeout
\* with the prompt pending.
Prompted(j) ==
    /\ \E a \in EventsOf("attempt") : a > j
    /\ AttemptExc(AttemptOf(j)).type = "GsmReadTimeoutError"
    /\ AttemptExc(AttemptOf(j)).pending_data # <<>>
    /\ AttemptExc(AttemptOf(j)).pending_data[1] = ">"

\* What was written that is no text of a message.
CommandWrites == AllWrites \ BodyWrites

\* The last command written before place i of the log.
WriteBefore(i) ==
    CHOOSE j \in CommandWrites : j < i /\ \A k \in CommandWrites : k < i => k <= j

\* C27: send_sms writes the text of the message, ended by byte 26, only
\* after the exchange of AT+CMGS ended in a read timeout with the prompt
\* pending; when that exchange ends otherwise the text is never written.
C27_BodyOnlyAtPrompt ==
    last.op = "send_sms" =>
        /\ \A b \in BodyWrites :
              /\ \E j \in CommandWrites : j < b
              /\ WriteBefore(b) \in WrittenAt(InitiationOf(last.args))
              /\ Prompted(WriteBefore(b))
        /\ \A j \in WrittenAt(InitiationOf(last.args)) :
              (~Prompted(j) /\ \A k \in WrittenAt(InitiationOf(last.args)) : k <= j) =>
                  BodyWrites = {}

\* The device accepted a text of the last call: an exchange begun by
\* writing one ended without an exception.
TextAccepted ==
    \E b \in BodyWrites :
        /\ \E a \in EventsOf("attempt") : a > b
        /\ AttemptExc(AttemptOf(b)) = NoExc

\* C28: send_sms lets no exception reach its caller, whatever the device
\* does: it returns True when the message was sent and None otherwise.
C28_SendSmsNeverRaises ==
    last.op = "send_sms" =>
        /\ ~Raised(last)
        /\ last.ret \in {RTrue, RNone}
        /\ last.ret = RTrue <=> TextAccepted

\* The lines of the last response that belong to no notification: its
\* lines of data in the order they came, and the OK that ended it.
OtherLines ==
    [k \in DOMAIN ItemsOfKind("line") |-> ItemsOfKind("line")[k].text] \o <<S_OK>>

\* The last response carried notifications that the pattern matches and
\* whose texts do not look like the end of a response, and no +CMT line
\* of another kind.
Notified ==
    /\ Delivered
    /\ PlainTexts
    /\ ItemsOfKind("bad") = <<>>
    /\ ItemsOfKind("note") # <<>>

\* C29: however the acknowledgement AT+CNMA fails (ERROR, a coded error,
\* the device busy throughout, no answer), the failure is ignored: each
\* message or part is handed to the assembler, and the command returns
\* its cleaned lines and raises nothing.
C29_AckFailureIgnored ==
    (Notified /\ last.args.ack # AnsOK) =>
        /\ ~Raised(last)
        /\ Handed = Len(ItemsOfKind("note"))
        /\ last.ret = RLines(OtherLines)

LaterByOther(i, j) ==
    /\ i < j
    /\ threads.trace[j].who # threads.trace[i].who

\* Does the caller of event i do, strictly between events i and j,
\* something that satisfies one of the kinds given?
ReadBetween(i, j) ==
    \E k \in (i + 1)..(j - 1) :
        /\ threads.trace[k].who = threads.trace[i].who
        /\ threads.trace[k].ev = "read"

\* C21: with concurrent callers of command(), writing a command and
\* awaiting its response is atomic: between a caller's write of a command
\* and its reading of the response up to the terminal line (or the error
\* that ends the reading), no other caller writes to or reads from the
\* transport.
C21_ExchangeAtomic ==
    \A i, j \in 1..Len(threads.trace) :
        ( /\ LaterByOther(i, j)
          /\ threads.trace[i].ev = "write"
          /\ threads.trace[i].fn = "command"
          /\ threads.trace[j].ev \in {"write", "read"} )
        => ReadBetween(i, j)

\* One caller is between its write and its read while the other, which
\* has used the transport before, stands at the lock.
C21_Witness ==
    \E c, o \in Callers :
        /\ c # o
        /\ threads.call[c].at = "wait"
        /\ threads.call[o].at = "lock"
        /\ \E i \in 1..Len(threads.trace) :
              threads.trace[i].who = o /\ threads.trace[i].ev = "read"

\* Is event k the end of what AT+CMGS began: the text of the message or
\* the escape written, or send_sms left?
EndsMessage(k) ==
    \/ /\ threads.trace[k].ev = "write"
       /\ threads.trace[k].data \in {ThreadText \o <<Chr26>>, <<Chr27>>}
    \/ /\ threads.trace[k].ev = "return"
       /\ threads.trace[k].fn = "send_sms"

EndedBetween(i, j) ==
    \E k \in (i + 1)..(j - 1) :
        threads.trace[k].who = threads.trace[i].who /\ EndsMessage(k)

\* C26: while one caller is inside send_sms, between its writing AT+CMGS
\* and its writing the text of the message or the abort byte, no other
\* caller writes to the transport, the rests between retries and between
\* commands included.
C26_MessageNotInterleaved ==
    \A i, j \in 1..Len(threads.trace) :
        ( /\ LaterByOther(i, j)
          /\ threads.trace[i].ev = "write"
          /\ threads.trace[i].data = ThreadInitiation \o CR
          /\ threads.trace[j].ev = "write" )
        => EndedBetween(i, j)

\* A caller of send_sms rests, AT+CMGS written and answered (busy, or with
\* the prompt), while the other caller stands at the lock with a command
\* to write.
C26_Witness ==
    \E c, o \in Callers :
        /\ c # o
        /\ threads.call[c].op = "send_sms"
        /\ threads.call[c].at \in {"sleep", "delay"}
        /\ threads.call[o].at = "lock"
        /\ \E i \in 1..Len(threads.trace) :
              /\ threads.trace[i].who = c
              /\ threads.trace[i].data = ThreadInitiation \o CR
              /\ ~EndedBetween(i, Len(threads.trace) + 1)

\* The texts that the last call put in the queue, in order.
QueuedTexts ==
    [k \in 1..(Len(incoming_queue) - Len(last.pre_queue)) |->
        incoming_queue[Len(last.pre_queue) + k].text]

\* The text lines of the last response's notifications, stripped.
BodiesOf(items) == [k \in DOMAIN NotesOf(items) |-> strip(NotesOf(items)[k].body)]

\* C31: the text handed to the assembler for a notification is the line
\* that followed its +CMT line in the response, blank or not: the command
\* raises nothing, no other line of the response (the header of the next
\* notification, the final OK) is queued as a text, and the final OK is
\* returned to the caller.
C31_BodyIsFollowingLine ==
    (last.op = "deliver_body" /\ LineClear /\ max_retries >= 1) =>
        /\ ~Raised(last)
        /\ \A k \in DOMAIN QueuedTexts :
              \E j \in DOMAIN BodiesOf(last.args.items) :
                  QueuedTexts[k] = BodiesOf(last.args.items)[j]
        /\ last.ret.lines # <<>>
        /\ last.ret.lines[Len(last.ret.lines)] = S_OK

\* The parts pending for a sender before the last call.
PendingBefore(sender) ==
    IF sender \in DOMAIN last.pre_multipart THEN last.pre_multipart[sender] ELSE <<>>

\* Two notifications arrived during the last call, on a clear line, with
\* an attempt allowed.
TwoArrived ==
    /\ last.op = "deliver_in_order"
    /\ LineClear
    /\ max_retries >= 1

\* C32: messages join the queue, and parts a sender's pending list, in
\* the order in which their notifications arrived, also when the second
\* notification arrived in the response to the acknowledgement of the
\* first.
C32_ArrivalOrder ==
    /\ (TwoArrived /\ ~IsPart(last.args.first.body) /\ ~IsPart(last.args.second.body)) =>
          QueuedTexts = <<last.args.first.body, last.args.second.body>>
    /\ (TwoArrived /\ IsPart(last.args.first.body) /\ IsPart(last.args.second.body)) =>
          /\ last.args.first.sender \in DOMAIN multipart
          /\ multipart[last.args.first.sender] =
                PendingBefore(last.args.first.sender)
                \o <<Payload(last.args.first.body), Payload(last.args.second.body)>>

\* The callers of next_message that were given a message.
Receivers ==
    {c \in Callers : threads.call[c].op = "next_message"
                     /\ threads.call[c].at = "done"
                     /\ threads.call[c].ret.kind = "msg"}

\* C33: callers that run next_message(ping=False, fetch=False) at the same
\* time raise nothing, and each message that arrived is in the queue or
\* was given to exactly one caller: of two callers at a queue of one
\* message, one is given the message and the other None.
C33_EachMessageToOneCaller ==
    (max_retries >= 1) =>
        /\ \A c \in Callers :
              threads.call[c].op = "next_message" => threads.call[c].exc = NoExc
        /\ Cardinality(Receivers) + Len(incoming_queue) = last.n

\* C34: within one call of send_sms the text of the message, ended by
\* byte 26, is written at most once: a 515 in reply to it does not have
\* it written again, the prompt being over.
C34_BodyWrittenOnce ==
    last.op = "send_sms" => Cardinality(BodyWrites) <= 1

\* The places in the last call's log where the command issued by the
\* caller rested for cmd_delay.
Rests ==
    {i \in DOMAIN last.log : /\ last.log[i].ev = "sleep"
                              /\ last.log[i].data = "cmd_delay"
                              /\ last.log[i].depth = 1}

\* C35: however command() ends (a response returned, an error ignored, an
\* error raised, the retries used up), it has rested for cmd_delay after
\* its last attempt, and the caller does not hold the modem lock.
C35_RestsAndReleases ==
    (last.op = "command" /\ last.exc # Hang /\ max_retries >= 1) =>
        /\ modem_lock = 0
        /\ \E i \in Rests : \A a \in Attempts : last.log[a].depth = 1 => a < i

\* C36: a read timeout given to _read is put back on every way out: once
\* _read has returned a line or failed (the read timed out, the port
\* failed), and so once a command has ended, the device's timeout is what
\* it was before.
C36_TimeoutRestored ==
    (last.op \in {"_read", "command_timed"} /\ last.exc # Hang) =>
        device.timeout = last.pre_device.timeout

\* A line that ends the collecting of a response.
EndsResponse(line) == IsTerminal(line) \/ line = S_COMMAND_NOT_SUPPORT

\* The lines stripped, as the collector compares them.
Stripped(lines) == [k \in DOMAIN lines |-> strip(lines[k])]

\* The place of the first line that ends a response, or 0.
FirstEnd(lines) ==
    IF \E k \in DOMAIN lines : EndsResponse(strip(lines[k]))
    THEN CHOOSE k \in DOMAIN lines :
            /\ EndsResponse(strip(lines[k]))
            /\ \A j \in 1..(k - 1) : ~EndsResponse(strip(lines[j]))
    ELSE 0

\* How _wait ends at the line: the lines so far returned for OK, a coded
\* error for +CMS ERROR: n and +CME ERROR: n, an error without a code for
\* ERROR and COMMAND NOT SUPPORT.
EndsWith(line, sofar) ==
    IF line = S_OK THEN last.exc = NoExc /\ last.ret = RLines(sofar)
    ELSE IF MatchCodedError(line) # <<>>
    THEN last.exc = GsmModemError(IF line[4] = "E" THEN "CME" ELSE "CMS",
                                  int(SliceFrom(line, 12)))
    ELSE last.exc = GsmModemError("", None)

\* _wait ended at place k of the lines, and left what follows on the
\* transport.
EndedAt(lines, k) ==
    /\ EndsWith(strip(lines[k]), SubSeq(Stripped(lines), 1, k))
    /\ device.buf_read = LinesOut(SubSeq(lines, k + 1, Len(lines)))

\* C37 as stated: the collector stops only on a terminal line: it returns
\* lines that end with OK, or fails with a modem error.
C37_StopsOnlyAtTerminalLine ==
    (last.op = "_wait" /\ LineClear) =>
        \/ /\ last.exc = NoExc
           /\ last.ret.kind = "lines"
           /\ last.ret.lines[Len(last.ret.lines)] = S_OK
        \/ last.exc.type = "GsmModemError"

\* C37, amended: the collector stops at the first terminal line, which it
\* returns with the lines before it (OK) or turns into a modem error,
\* coded or not, and consumes no line after it; with no terminal line it
\* accumulates every line, however many, and ends only when a read times
\* out, with GsmReadTimeoutError.
C37_StopsAtFirstTerminalLineOrTimeout ==
    (last.op = "_wait" /\ LineClear) =>
        IF FirstEnd(last.args.lines) = 0
        THEN /\ last.exc.type = "GsmReadTimeoutError"
             /\ device.buf_read = <<>>
        ELSE EndedAt(last.args.lines, FirstEnd(last.args.lines))

\* A line of data, then OK with spaces around it, then a line that was
\* left on the transport.
C37_Witness ==
    /\ last.op = "_wait"
    /\ Len(last.args.lines) = 3
    /\ last.ret = RLines(<<S_CSQ_LINE, S_OK>>)
    /\ last.args.lines[2] # S_OK
    /\ device.buf_read = S_ERROR \o CRLF

\* How far a command is from its end within one attempt.
Place(at) ==
    CASE at = "loop" -> 6
      [] at = "lock" -> 5
      [] at = "write" -> 4
      [] at = "wait" -> 3
      [] at \in {"after", "except"} -> 2
      [] at \in {"delay", "sleep"} -> 1
      [] OTHER -> 0

\* A bound on the statements a command has left: the attempts left, each
\* of seven statements at most, and the place within the attempt.
CommandRank(f) ==
    IF f.at = "ended" THEN 0 ELSE (max_retries - f.retries) * 7 + Place(f.at)

\* More than any command has left.
RankOfCommand == 7 * max_retries + 7

\* A bound on the statements a call has left.
CallRank(f) ==
    CASE f.at = "idle" -> 2 * RankOfCommand + 10
      [] f.at = "sms_lock" -> 2 * RankOfCommand + 9
      [] f.at = "sms_try" -> 2 * RankOfCommand + 8
      [] f.at = "sms_abort" -> 2
      [] f.at = "sms_exit" -> 1
      [] f.at = "done" -> 0
      [] OTHER -> CommandRank(f)
                  + (IF f.phase = "initiate" THEN RankOfCommand + 4
                     ELSE IF f.phase = "body" THEN 3 ELSE 1)

\* A step is a statement of one caller, and leaves that caller with
\* fewer statements to go.
Advances ==
    \E c \in Callers :
        /\ CallRank(threads.call[c]) >= 0
        /\ CallRank(threads'.call[c]) >= 0
        /\ CallRank(threads'.call[c]) < CallRank(threads.call[c])
        /\ \A o \in Callers \ {c} : threads'.call[o] = threads.call[o]

\* Every call has ended.
AllEnded == \A c \in Callers : threads.call[c].at = "done"

\* C38: every call of command() ends, the reads timing out on a silent
\* device and every thread being scheduled: each statement leaves its
\* caller with fewer statements to go, the attempts being bounded by the
\* retry limit, and in the end every call (command() on its own, and the
\* commands of send_sms) has returned or raised.
C38_CommandTerminates == [][Advances]_vars /\ <>[]AllEnded

\* A command gave up after the device was busy at every attempt allowed,
\* while the other caller's command was answered.
C38_Witness ==
    /\ AllEnded
    /\ \E c, o \in Callers :
          /\ threads.call[c].op = "command"
          /\ threads.call[c].exc = PyError("UnboundLocalError")
          /\ threads.call[c].retries = max_retries
          /\ max_retries = MaxRetries
          /\ threads.call[o].exc = NoExc
          /\ threads.call[o].op = "send_sms"
          /\ threads.call[o].ret = RTrue

\* The hexadecimal digits, of either case.
HexDigits == HexUpper \cup {"a", "b", "c", "d", "e", "f"}

\* The text cannot be hex-encoded UTF-16: its length is not a positive
\* multiple of four, or a character of it is no hexadecimal digit.
NotEncoded(text) ==
    \/ Len(text) % 4 # 0
    \/ Len(text) = 0
    \/ \E i \in 1..Len(text) : text[i] \notin HexDigits

\* The text looks hex-encoded to _add_incoming.
LooksEncoded(text) ==
    /\ Len(text) % 4 = 0
    /\ Len(text) > 0
    /\ \A i \in 1..Len(text) : text[i] \in HexUpper

\* Whether the text starts with a byte order mark.
Marked(text) ==
    Slice(text, 0, 4) \in {<<"F", "E", "F", "F">>, <<"F", "F", "F", "E">>}

\* Decoding the text, a byte order mark put before it if it has none,
\* raises.
DecodingFails(text) ==
    ~decode_utf16(decode_hex(IF Marked(text) THEN text ELSE S_feff \o text)).ok

\* C39: a text that cannot be hex-encoded UTF-16 (length not a positive
\* multiple of four, or a character that is no hexadecimal digit) is
\* enqueued unchanged, and a text that looks hex-encoded but whose
\* decoding fails is enqueued with exactly the original text.
C39_UndecodableTextKept ==
    (last.op = "_add_incoming" /\ last.exc = NoExc
     /\ (\/ NotEncoded(last.args.text)
         \/ LooksEncoded(last.args.text) /\ DecodingFails(last.args.text)))
    => /\ Len(incoming_queue) = Len(last.pre_queue) + 1
       /\ incoming_queue[Len(incoming_queue)].text = last.args.text

\* C40: a command exchange in progress on one modem object never keeps a
\* command on another modem object, with a transport of its own, from
\* entering its own exchange.
C40_OtherModemNeverWaits ==
    \A o \in Callers : threads.call[o].at = "lock" => CanEnter(o)

====
